---- MODULE Spec2Model ----
(***************************************************************************)
(* The metric-based optimization loop of prompt_optimizer                  *)
(* (prompt_optimizer/optimizer/metric_based.py): one optimize call on a    *)
(* MetricBasedOptimizer, with the Generator and the Evaluator as external  *)
(* collaborators whose responses are chosen nondeterministically.          *)
(*                                                                         *)
(* Strings (prompts, the evaluator's total_score, feedback) are sequences  *)
(* of one-character strings, so that str.strip and int() are computed.     *)
(***************************************************************************)
EXTENDS Integers, Sequences, FiniteSets, TLC

(* ------------------------------ bounds --------------------------------- *)

\* Largest iteration budget (max_iterations) explored.
MaxN == 3

\* Longest list of examples saved to the examples file.
MaxExamples == 3

\* Most calls of record_history explored.
MaxRecords == 3

\* Largest limit given to load_history.
MaxLimit == 2

\* Most optimize calls made on each of two objects.
MaxCallsEach == 1

\* The iteration budget of the two objects.
PairMaxIterations == 1

(* ---------------------------- program constants ------------------------ *)

\* PromptOptimizer.max_iterations default.
DefaultMaxIterations == 3

\* PromptOptimizer.max_tokens default.
DefaultMaxTokens == 64000

\* ExampleBasedOptimizer.num_examples default.
DefaultNumExamples == 3

(* ------------------------------ input sets ----------------------------- *)

\* Values of max_iterations a caller may construct the optimizer with: the
\* dataclass accepts any int, and range() of a non-positive one is empty.
IterationBudgets == {0 - 1, 0} \cup (1..MaxN)

\* The max_iterations keyword of the constructor: <<>> when left out.
MaxIterationsKeywords == {<<>>} \cup { <<n>> : n \in IterationBudgets }

\* Prompts a caller may pass to optimize: empty, whitespace-only, plain.
SeedPrompts == { <<>>, <<" ", " ">>, <<"p">> }

\* Prompts the Generator may return as improved_prompt; one echoes a seed.
GeneratedPrompts == { <<"p">>, <<"q">> }

\* total_score strings the Evaluator may return: "5", "15", " -3" parse as
\* integers; "x" and "1.5" do not.
RawScores == { <<"5">>, <<"1", "5">>, <<" ", "-", "3">>, <<"x">>, <<"1", ".", "5">> }

\* feedback strings the Evaluator may return.
Feedbacks == { <<"f">> }

\* Failures of an external call (opaque to the loop).
Failures == { "network", "rate_limit" }

\* The three strategy tags, and the optimization_type values a caller may
\* pass to optimize_prompt: the three tags, a misspelt one, the empty one.
StrategyTags == { "self", "example", "metric" }

OptimizationTypes == StrategyTags \cup { "metrics", "" }

\* Model identifiers and credentials a caller may construct a strategy
\* with: the dataclass accepts any str, the empty one included.
Models == { "", "m" }

ApiKeys == { "", "k" }

\* max_tokens values a caller may construct a strategy with.
TokenBudgets == { 0 - 1, 0, DefaultMaxTokens }

\* max_iterations keywords explored when construction is part of the run.
ConstructionBudgets == { << 0 - 1 >>, << 0 >>, << 1 >> }

\* Values of the optional example_generator_model and
\* example_generator_api_key arguments.
GeneratorModels == { <<>>, << "g" >> }

GeneratorApiKeys == { <<>>, << "gk" >> }

(* ------------------------- str.strip and int() ------------------------- *)

IsSpace(c) == c \in {" ", "\t", "\n"}

RECURSIVE lstrip(_)
lstrip(s) ==
    IF s = <<>> THEN <<>>
    ELSE IF IsSpace(Head(s)) THEN lstrip(Tail(s)) ELSE s

RECURSIVE rstrip(_)
rstrip(s) ==
    IF s = <<>> THEN <<>>
    ELSE IF IsSpace(s[Len(s)]) THEN rstrip(SubSeq(s, 1, Len(s) - 1)) ELSE s

\* str.strip()
strip(s) == rstrip(lstrip(s))

Digits == {"0", "1", "2", "3", "4", "5", "6", "7", "8", "9"}

DigitVal(c) ==
    CASE c = "0" -> 0 [] c = "1" -> 1 [] c = "2" -> 2 [] c = "3" -> 3
      [] c = "4" -> 4 [] c = "5" -> 5 [] c = "6" -> 6 [] c = "7" -> 7
      [] c = "8" -> 8 [] c = "9" -> 9

\* The digit part of an int() literal: digits, single underscores between.
IsDigitPart(s) ==
    /\ s # <<>>
    /\ s[1] \in Digits
    /\ s[Len(s)] \in Digits
    /\ \A k \in 1..Len(s) : s[k] \in Digits \cup {"_"}
    /\ \A k \in 1..(Len(s) - 1) : ~(s[k] = "_" /\ s[k + 1] = "_")

RECURSIVE DigitPartVal(_, _)
DigitPartVal(s, acc) ==
    IF s = <<>> THEN acc
    ELSE IF Head(s) = "_" THEN DigitPartVal(Tail(s), acc)
    ELSE DigitPartVal(Tail(s), 10 * acc + DigitVal(Head(s)))

\* int(str): surrounding whitespace is dropped, one optional sign, then the
\* digit part; anything else raises ValueError (ok = FALSE).
py_int(s) ==
    LET t == strip(s)
        signed == t # <<>> /\ Head(t) \in {"+", "-"}
        d == IF signed THEN Tail(t) ELSE t
    IN  IF IsDigitPart(d)
        THEN [ok |-> TRUE,
              val |-> IF signed /\ Head(t) = "-"
                      THEN 0 - DigitPartVal(d, 0) ELSE DigitPartVal(d, 0)]
        ELSE [ok |-> FALSE, val |-> 0]

(* -------------------------------- JSON --------------------------------- *)

\* Texts (file contents, model responses) are sequences of atoms: the
\* characters JSON and Markdown give a meaning to, each an atom of its own,
\* and words (prompt, null, p, ...), each standing for a run of letters.
\* JSON values carry their type: t is "str", "int", "null", "list" or
\* "dict"; a dict is the sequence of its << key, value >> items in
\* insertion order, the keys being strings.
\* Covered: strings with the escapes \" \\ \n \t, integers, null, arrays and
\* objects. Floats, true, false and \u escapes do not occur in the texts
\* explored.

Quote == "\""

Backslash == "\\"

Newline == "\n"

Tab == "\t"

JStr(s) == [t |-> "str", v |-> s]

JInt(n) == [t |-> "int", v |-> n]

JNull == [t |-> "null", v |-> 0]

JList(items) == [t |-> "list", v |-> items]

JDict(items) == [t |-> "dict", v |-> items]

\* d[k] = v on a dict: a key already present keeps its place.
RECURSIVE dict_set(_, _, _)
dict_set(items, k, v) ==
    IF items = <<>> THEN << << k, v >> >>
    ELSE IF Head(items)[1] = k THEN << << k, v >> >> \o Tail(items)
    ELSE << Head(items) >> \o dict_set(Tail(items), k, v)

dict_has(items, k) == \E n \in 1..Len(items) : items[n][1] = k

\* d.get(k, default)
dict_get(items, k, default) ==
    IF dict_has(items, k)
    THEN items[CHOOSE n \in 1..Len(items) : items[n][1] = k][2]
    ELSE default

\* The decimal digits of a natural number.
RECURSIVE nat_digits(_)
nat_digits(n) ==
    LET d == CHOOSE c \in Digits : DigitVal(c) = n % 10
    IN  IF n < 10 THEN << d >> ELSE Append(nat_digits(n \div 10), d)

\* str(int)
int_str(n) == IF n < 0 THEN << "-" >> \o nat_digits(0 - n) ELSE nat_digits(n)

\* str(v) of a JSON scalar as Python holds it: a str is itself, an int its
\* decimal digits, None the word None.
py_str(v) ==
    CASE v.t = "str" -> v.v
      [] v.t = "int" -> int_str(v.v)
      [] v.t = "null" -> << "None" >>

\* json.dumps of the characters of a string (ensure_ascii=False).
RECURSIVE json_escape(_)
json_escape(s) ==
    IF s = <<>> THEN <<>>
    ELSE (CASE Head(s) = Quote -> << Backslash, Quote >>
            [] Head(s) = Backslash -> << Backslash, Backslash >>
            [] Head(s) = Newline -> << Backslash, "n" >>
            [] Head(s) = Tab -> << Backslash, "t" >>
            [] OTHER -> << Head(s) >>) \o json_escape(Tail(s))

\* The line break and indentation json.dumps(indent=2) writes at a depth.
RECURSIVE json_indent(_)
json_indent(depth) ==
    IF depth = 0 THEN << Newline >> ELSE json_indent(depth - 1) \o << " ", " " >>

\* json.dumps(v, indent=2, ensure_ascii=False), v at nesting depth depth.
RECURSIVE json_dumps_at(_, _)
json_dumps_at(v, depth) ==
    LET RECURSIVE elements(_, _)
        elements(items, first) ==
            IF items = <<>> THEN <<>>
            ELSE (IF first THEN <<>> ELSE << "," >>)
                 \o json_indent(depth + 1)
                 \o json_dumps_at(Head(items), depth + 1)
                 \o elements(Tail(items), FALSE)
        RECURSIVE members(_, _)
        members(items, first) ==
            IF items = <<>> THEN <<>>
            ELSE (IF first THEN <<>> ELSE << "," >>)
                 \o json_indent(depth + 1)
                 \o << Quote >> \o json_escape(Head(items)[1]) \o << Quote, ":", " " >>
                 \o json_dumps_at(Head(items)[2], depth + 1)
                 \o members(Tail(items), FALSE)
    IN  CASE v.t = "str" -> << Quote >> \o json_escape(v.v) \o << Quote >>
          [] v.t = "int" -> int_str(v.v)
          [] v.t = "null" -> << "null" >>
          [] v.t = "list" ->
                IF v.v = <<>> THEN << "[", "]" >>
                ELSE << "[" >> \o elements(v.v, TRUE) \o json_indent(depth) \o << "]" >>
          [] v.t = "dict" ->
                IF v.v = <<>> THEN << "{", "}" >>
                ELSE << "{" >> \o members(v.v, TRUE) \o json_indent(depth) \o << "}" >>

json_dumps(v) == json_dumps_at(v, 0)

\* JSON whitespace.
IsJsonSpace(c) == c \in {" ", Tab, Newline, "\r"}

\* The first position at or after k that holds no whitespace.
RECURSIVE skip_ws(_, _)
skip_ws(t, k) == IF k <= Len(t) /\ IsJsonSpace(t[k]) THEN skip_ws(t, k + 1) ELSE k

\* A decoding step: the value read and the position after it, or ok = FALSE
\* for a JSONDecodeError.
Undecodable == [ok |-> FALSE, val |-> JNull, next |-> 0]

Decoded(v, k) == [ok |-> TRUE, val |-> v, next |-> k]

\* A string literal from the position after its opening quote.
RECURSIVE scan_string(_, _, _)
scan_string(t, k, acc) ==
    IF k > Len(t) THEN Undecodable
    ELSE IF t[k] = Quote THEN Decoded(JStr(acc), k + 1)
    ELSE IF t[k] = Backslash
    THEN IF k + 1 > Len(t) THEN Undecodable
         ELSE IF t[k + 1] \in {Quote, Backslash}
         THEN scan_string(t, k + 2, Append(acc, t[k + 1]))
         ELSE IF t[k + 1] = "n" THEN scan_string(t, k + 2, Append(acc, Newline))
         ELSE IF t[k + 1] = "t" THEN scan_string(t, k + 2, Append(acc, Tab))
         ELSE Undecodable
    ELSE IF t[k] \in {Newline, Tab, "\r"} THEN Undecodable
    ELSE scan_string(t, k + 1, Append(acc, t[k]))

\* The position after the run of digits that starts at k.
RECURSIVE scan_digits(_, _)
scan_digits(t, k) == IF k <= Len(t) /\ t[k] \in Digits THEN scan_digits(t, k + 1) ELSE k

\* An integer literal at k: an optional minus, then 0 or a run of digits
\* that does not start with 0.
scan_int(t, k) ==
    LET neg == t[k] = "-"
        d == IF neg THEN k + 1 ELSE k
        e == IF d <= Len(t) /\ t[d] = "0" THEN d + 1 ELSE scan_digits(t, d)
        n == DigitPartVal(SubSeq(t, d, e - 1), 0)
    IN  IF e = d THEN Undecodable
        ELSE Decoded(JInt(IF neg THEN 0 - n ELSE n), e)

RECURSIVE scan_value(_, _)
RECURSIVE scan_elements(_, _, _)
RECURSIVE scan_members(_, _, _)

\* A JSON value at position k.
scan_value(t, k) ==
    IF k > Len(t) THEN Undecodable
    ELSE IF t[k] = Quote THEN scan_string(t, k + 1, <<>>)
    ELSE IF t[k] = "["
    THEN LET j == skip_ws(t, k + 1)
         IN  IF j <= Len(t) /\ t[j] = "]" THEN Decoded(JList(<<>>), j + 1)
             ELSE scan_elements(t, j, <<>>)
    ELSE IF t[k] = "{"
    THEN LET j == skip_ws(t, k + 1)
         IN  IF j <= Len(t) /\ t[j] = "}" THEN Decoded(JDict(<<>>), j + 1)
             ELSE scan_members(t, j, <<>>)
    ELSE IF t[k] = "null" THEN Decoded(JNull, k + 1)
    ELSE IF t[k] = "-" \/ t[k] \in Digits THEN scan_int(t, k)
    ELSE Undecodable

\* The elements of an array, k at the start of an element.
scan_elements(t, k, acc) ==
    LET r == scan_value(t, k)
        j == skip_ws(t, r.next)
    IN  IF ~r.ok \/ j > Len(t) THEN Undecodable
        ELSE IF t[j] = "," THEN scan_elements(t, skip_ws(t, j + 1), Append(acc, r.val))
        ELSE IF t[j] = "]" THEN Decoded(JList(Append(acc, r.val)), j + 1)
        ELSE Undecodable

\* The members of an object, k at the start of a key.
scan_members(t, k, acc) ==
    IF k > Len(t) \/ t[k] # Quote THEN Undecodable
    ELSE LET key == scan_string(t, k + 1, <<>>)
             c == skip_ws(t, key.next)
             r == scan_value(t, skip_ws(t, c + 1))
             j == skip_ws(t, r.next)
         IN  IF ~key.ok \/ c > Len(t) THEN Undecodable
             ELSE IF t[c] # ":" THEN Undecodable
             ELSE IF ~r.ok \/ j > Len(t) THEN Undecodable
             ELSE IF t[j] = ","
             THEN scan_members(t, skip_ws(t, j + 1), dict_set(acc, key.val.v, r.val))
             ELSE IF t[j] = "}"
             THEN Decoded(JDict(dict_set(acc, key.val.v, r.val)), j + 1)
             ELSE Undecodable

\* json.loads(text): one value with nothing but whitespace around it;
\* ok = FALSE for a JSONDecodeError.
json_loads(t) ==
    LET r == scan_value(t, skip_ws(t, 1))
    IN  IF r.ok /\ skip_ws(t, r.next) > Len(t)
        THEN [ok |-> TRUE, val |-> r.val]
        ELSE [ok |-> FALSE, val |-> JNull]

(* ------------------------------ examples ------------------------------- *)

\* The three field names of an example.
PromptKey == << "prompt" >>

AnalysisKey == << "analysis" >>

ImprovedPromptKey == << "improved_prompt" >>

\* dspy.Example(**kwargs) holds its keyword arguments as attributes: the
\* sequence of its << name, value >> items, which is also its __dict__.
\* dspy.Example(prompt=p, analysis=a, improved_prompt=q):
Example(p, a, q) == << << PromptKey, p >>, << AnalysisKey, a >>, << ImprovedPromptKey, q >> >>

\* ex.<name> of an example that has the attribute.
attr(ex, name) == ex[CHOOSE n \in 1..Len(ex) : ex[n][1] = name][2]

\* The outcome of an operation that returns a list of examples or raises.
Examples(list) == [ok |-> TRUE, examples |-> list, err |-> ""]

Raises(e) == [ok |-> FALSE, examples |-> <<>>, err |-> e]

\* The exceptions the loaders raise.
UnreadableFile == "RuntimeError: Unexpected error reading"

FileNotFound == "FileNotFoundError: File not found"

InvalidJSON == "ValueError: Invalid JSON"

NotAList == "ValueError: Examples file must contain a list of objects"

NotAListFormat == "ValueError: Invalid JSON format: expected list"

\* The AttributeError of calling .get or .items on a value that is no dict.
AttributeError == "AttributeError"

\* dspy.Example(prompt=str(item.get("prompt", "")), analysis=...,
\* improved_prompt=...) for a dict item: a field the item lacks reads "".
example_from_item(item) ==
    Example(py_str(dict_get(item.v, PromptKey, JStr(<<>>))),
            py_str(dict_get(item.v, AnalysisKey, JStr(<<>>))),
            py_str(dict_get(item.v, ImprovedPromptKey, JStr(<<>>))))

\* The list comprehension over the decoded entries, all of them dicts.
examples_from_items(items) == [n \in 1..Len(items) |-> example_from_item(items[n])]

\* _load_examples_from_file(path), f being the file at path.
load_examples_from_file(f) ==
    IF f = <<>> THEN Raises(UnreadableFile)
    ELSE LET d == json_loads(f[1])
         IN  IF ~d.ok THEN Raises(InvalidJSON)
             ELSE IF d.val.t # "list" THEN Raises(NotAList)
             ELSE IF \E n \in 1..Len(d.val.v) : d.val.v[n].t # "dict"
             THEN Raises(AttributeError)
             ELSE Examples(examples_from_items(d.val.v))

\* dspy.Example(**{str(k): str(v) for k, v in item.items()})
example_from_items(item) == [n \in 1..Len(item.v) |-> << item.v[n][1], py_str(item.v[n][2]) >>]

\* ExampleGenerator.load_examples(path), f being the file at path.
load_examples(f) ==
    IF f = <<>> THEN Raises(FileNotFound)
    ELSE LET d == json_loads(f[1])
         IN  IF ~d.ok THEN Raises(InvalidJSON)
             ELSE IF d.val.t # "list" THEN Raises(NotAListFormat)
             ELSE IF \E n \in 1..Len(d.val.v) : d.val.v[n].t # "dict"
             THEN Raises(AttributeError)
             ELSE Examples([n \in 1..Len(d.val.v) |-> example_from_items(d.val.v[n])])

\* Mutant: the file is written without escaping the characters of a string.
saved_text_unescaped(list) ==
    LET RECURSIVE raw(_)
        raw(ex) == IF ex = <<>> THEN <<>>
                   ELSE << Quote >> \o Head(ex)[1] \o << Quote, ":", Quote >>
                        \o Head(ex)[2] \o << Quote >>
                        \o (IF Tail(ex) = <<>> THEN <<>> ELSE << "," >>) \o raw(Tail(ex))
        RECURSIVE all(_)
        all(l) == IF l = <<>> THEN <<>>
                  ELSE << "{" >> \o raw(Head(l)) \o << "}" >>
                       \o (IF Tail(l) = <<>> THEN <<>> ELSE << "," >>) \o all(Tail(l))
    IN  << "[" >> \o all(list) \o << "]" >>

\* The text save_examples writes: json.dumps([ex.__dict__ for ex in
\* examples], indent=2, ensure_ascii=False).
saved_text(list) ==
    json_dumps(JList([n \in 1..Len(list) |->
                        JDict([m \in 1..Len(list[n]) |->
                                 << list[n][m][1], JStr(list[n][m][2]) >>])]))

\* _format_examples(examples)
RECURSIVE format_examples(_)
format_examples(list) ==
    IF list = <<>> THEN <<>>
    ELSE << "Original: " >> \o attr(Head(list), PromptKey) \o << Newline >>
         \o << "Analysis: " >> \o attr(Head(list), AnalysisKey) \o << Newline >>
         \o << "Improved: " >> \o attr(Head(list), ImprovedPromptKey)
         \o (IF Tail(list) = <<>> THEN <<>> ELSE << Newline, Newline >>)
         \o format_examples(Tail(list))

(* ---------------------------- ExampleGenerator ------------------------- *)

\* The ValueErrors of ExampleGenerator.__post_init__.
ModelEmpty == "ValueError: model cannot be empty"

ApiKeyEmpty == "ValueError: api_key cannot be empty"

BudgetNotPositive == "ValueError: num_examples and max_tokens must be positive"

\* ExampleGenerator.__post_init__: the ValueError raised, "" when none is.
generator_post_init(m, k, n, t) ==
    IF m = "" THEN ModelEmpty
    ELSE IF k = "" THEN ApiKeyEmpty
    ELSE IF n <= 0 \/ t <= 0 THEN BudgetNotPositive
    ELSE ""

\* The exceptions of _parse_response.
EmptyResponse == "ValueError: Response text must be a non-empty string"

GenerationFailed == "RuntimeError: Failed to generate examples"

\* The character ` as an atom (a TLA+ string cannot hold it).
Backtick == "backtick"

\* Whether the Markdown fence ``` starts at position k of t.
fence_at(t, k) == k + 2 <= Len(t) /\ t[k] = Backtick /\ t[k + 1] = Backtick /\ t[k + 2] = Backtick

\* The first position at or after k that holds a backtick, Len(t) + 1 if none.
RECURSIVE next_backtick(_, _)
next_backtick(t, k) == IF k <= Len(t) /\ t[k] # Backtick THEN next_backtick(t, k + 1) ELSE k

\* Where the body of a fenced block that opens at k starts: after the fence
\* and the word json when it follows.
fence_body(t, k) == IF k + 3 <= Len(t) /\ t[k + 3] = "json" THEN k + 4 ELSE k + 3

\* Whether ```(?:json)?\s*([^`]*?)\s*``` matches at position k.
fence_matches(t, k) == fence_at(t, k) /\ fence_at(t, next_backtick(t, fence_body(t, k)))

\* _extract_json_from_text: group 1 of the first match, else the text.
extract_json_from_text(t) ==
    IF \E k \in 1..Len(t) : fence_matches(t, k)
    THEN LET k == CHOOSE j \in 1..Len(t) :
                      fence_matches(t, j) /\ \A h \in 1..(j - 1) : ~fence_matches(t, h)
         IN  strip(SubSeq(t, fence_body(t, k), next_backtick(t, fence_body(t, k)) - 1))
    ELSE t

\* Examples a generator that fell back to a built-in set would return.
DefaultExamples == << Example(<< "d" >>, << "a" >>, << "e" >>) >>

\* Mutant: a response that does not decode yields the built-in examples.
parse_response_fallback(text) ==
    IF text = <<>> THEN Examples(DefaultExamples)
    ELSE LET d == json_loads(extract_json_from_text(text))
         IN  IF ~d.ok THEN Examples(DefaultExamples)
             ELSE IF d.val.t \in {"int", "null"} THEN Raises(GenerationFailed)
             ELSE IF d.val.v = <<>> THEN Examples(<<>>)
             ELSE IF d.val.t # "list" THEN Raises(AttributeError)
             ELSE IF \E n \in 1..Len(d.val.v) : d.val.v[n].t # "dict"
             THEN Raises(AttributeError)
             ELSE Examples(examples_from_items(d.val.v))

\* _parse_response(text): an empty text is a ValueError; a text that does
\* not decode, or decodes to a value that cannot be iterated (TypeError),
\* is a RuntimeError; iterating a str or the keys of a dict, or a list
\* entry that is no dict, ends in the AttributeError of .get.
parse_response(text) ==
    IF text = <<>> THEN Raises(EmptyResponse)
    ELSE LET d == json_loads(extract_json_from_text(text))
         IN  IF ~d.ok THEN Raises(GenerationFailed)
             ELSE IF d.val.t \in {"int", "null"} THEN Raises(GenerationFailed)
             ELSE IF d.val.v = <<>> THEN Examples(<<>>)
             ELSE IF d.val.t # "list" THEN Raises(AttributeError)
             ELSE IF \E n \in 1..Len(d.val.v) : d.val.v[n].t # "dict"
             THEN Raises(AttributeError)
             ELSE Examples(examples_from_items(d.val.v))

\* x or default, for an optional str x: None and "" give the default.
str_or(x, default) == IF x = <<>> THEN default ELSE IF x[1] = "" THEN default ELSE x[1]

\* x or default, for an optional int x: None and 0 give the default.
int_or(x, default) == IF x = <<>> THEN default ELSE IF x[1] = 0 THEN default ELSE x[1]

\* The model _generate_examples falls back to.
DefaultExampleGeneratorModel == "claude-3-5-haiku-latest"

\* Mutant: an empty in-memory list counts as not provided.
examples_source_truthy(ex, path) ==
    IF ex # <<>> /\ ex[1] # <<>> THEN "memory"
    ELSE IF path # <<>> THEN "file"
    ELSE "generate"

\* _initialize_examples: the source the examples are taken from.
examples_source(ex, path) ==
    IF ex # <<>> THEN "memory"
    ELSE IF path # <<>> THEN "file"
    ELSE "generate"

\* In-memory example lists a caller may pass as examples.
ExampleLists == { <<>>, << Example(<< "p" >>, << "a" >>, << "q" >>) >> }

\* Contents of an examples file: no JSON; an object; an array with an entry
\* that is no object; an entry lacking fields; an entry with fields that are
\* no strings; one well-formed entry; an empty array; two well-formed
\* entries with escaped characters.
FileTexts ==
    { << "x" >>,
      << "{", Quote, "prompt", Quote, ":", " ", Quote, "p", Quote, "}" >>,
      << "[", Quote, "p", Quote, "]" >>,
      << "[", "{", Quote, "prompt", Quote, ":", " ", Quote, "p", Quote, "}", "]" >>,
      << "[", "{", Quote, "prompt", Quote, ":", "5", ",",
                   Quote, "analysis", Quote, ":", "null", ",",
                   Quote, "improved_prompt", Quote, ":", Quote, "q", Quote, "}", "]" >>,
      << "[", "{", Quote, "prompt", Quote, ":", Quote, "f", Quote, ",",
                   Quote, "analysis", Quote, ":", Quote, "a", Quote, ",",
                   Quote, "improved_prompt", Quote, ":", Quote, "g", Quote, "}", "]" >>,
      << "[", "]" >>,
      saved_text(<< Example(<< "p", Quote >>, << Backslash, "a" >>, << "q", Newline >>),
                    Example(<<>>, << "b" >>, << Tab >>) >>) }

\* Examples with quotes, backslashes, line breaks, tabs and empty fields,
\* and the lists of at most MaxExamples of them a caller may save.
ExamplePool ==
    { Example(<< "p", Quote >>, << Backslash, "a" >>, << "q", Newline >>),
      Example(<<>>, << "b" >>, << Tab >>),
      Example(<< "p" >>, << "a" >>, << "q" >>) }

SavedLists == UNION { [1..n -> ExamplePool] : n \in 0..MaxExamples }

\* The examples file: missing, or holding one of the texts.
Files == { <<>> } \cup { << t >> : t \in FileTexts }

\* Texts the example generation call may return as examples: an array with
\* one example; the same in a fenced block with prose around; prose; a
\* fenced block of prose; nothing; a number; an array of a number; an empty
\* array; an entry lacking fields.
ResponseTexts ==
    { << "[", "{", Quote, "prompt", Quote, ":", Quote, "r", Quote, ",",
                   Quote, "analysis", Quote, ":", Quote, "a", Quote, ",",
                   Quote, "improved_prompt", Quote, ":", Quote, "s", Quote, "}", "]" >>,
      << "x", " ", Backtick, Backtick, Backtick, "json", Newline,
         "[", "{", Quote, "prompt", Quote, ":", Quote, "r", Quote, "}", "]", Newline,
         Backtick, Backtick, Backtick, " ", "y" >>,
      << "x" >>,
      << Backtick, Backtick, Backtick, "x", Backtick, Backtick, Backtick >>,
      <<>>,
      << "5" >>,
      << "[", "5", "]" >>,
      << "[", "]" >> }

(* ------------------------------- state --------------------------------- *)

VARIABLES
    pc,               \* position of the optimize call
    prompt_text,      \* optimize's argument
    kw_max_iterations,\* the constructor's max_iterations keyword
    max_iterations,   \* self.max_iterations
    verbose,          \* self.verbose
    initial_score,    \* optimize's local initial_score
    best_prompt,      \* _run_optimization_loop's local best_prompt
    best_score,       \* _run_optimization_loop's local best_score
    i,                \* the loop variable of range(self.max_iterations)
    candidate_prompt, \* _process_optimization_iteration's local
    calls,            \* the external calls made so far, in order
    result,           \* <<p>> once optimize returned p, else <<>>
    raised,           \* the exception that left optimize, "" if none
    log,              \* logger.info lines written
    entry,            \* how the strategy is reached: "direct" or "factory"
    optimization_type,\* the strategy tag asked for
    model,            \* the model argument, self.model once constructed
    api_key,          \* the api_key argument, self.api_key once constructed
    max_tokens,       \* the max_tokens argument, self.max_tokens
    strategy,         \* tag of the strategy object constructed, "" if none
    lm,               \* self.lm: <<>> before _setup_dspy, then << LM >>
    dspy_lm,          \* the default LM registered by dspy.configure
    examples,         \* the examples argument: <<>> for None, else << list >>
    examples_file,    \* the examples_file argument: <<>> for None, else << path >>
    file,             \* the examples file: <<>> when missing, else << text >>
    reads,            \* how many times the examples file was read
    writes,           \* how many times the examples file was written
    example_generator_model,      \* <<>> for None, else << str >>
    example_generator_api_key,    \* <<>> for None, else << str >>
    example_generator_max_tokens, \* <<>> for None, else << int >>
    num_examples,     \* the num_examples argument
    self_examples,    \* self._examples: <<>> while unset, else << list >>
    loaded,           \* << list >> once a load of the examples file returned
    stdout,           \* what was written to standard output
    subcommand,       \* the CLI subcommand invoked, "" outside the CLI
    option_api_key,   \* the --api-key option: <<>> for None, else << str >>
    input_prompt,     \* the text of the input_prompt file
    input_read,       \* TRUE once input_prompt.read() was called
    output,           \* what was written to the --output file
    stderr,           \* what click.echo(..., err=True) wrote
    exit_code,        \* << n >> once sys.exit(n) was called, else <<>>
    finished,         \* the optimize calls this object completed before
    objects,          \* the strategy objects of a caller who holds several
    log_file,         \* the history log: <<>> when missing, else << text >>
    recorded,         \* the data record_history was called with, in order
    limit,            \* load_history's limit: <<>> for None, else << k >>
    entries           \* << list >> once load_history returned, else <<>>

\* The variables of strategy construction.
construction_vars == << entry, optimization_type, model, api_key, max_tokens,
                        strategy, lm, dspy_lm >>

\* The variables of example acquisition and of the examples file.
example_vars == << examples, examples_file, file, reads, writes, example_generator_model,
                   example_generator_api_key, example_generator_max_tokens,
                   num_examples, self_examples, loaded, stdout >>

\* The variables of a CLI run.
cli_vars == << subcommand, option_api_key, input_prompt, input_read, output,
               stderr, exit_code >>

\* The variables of the history log.
history_vars == << log_file, recorded, limit, entries >>

\* The variables of repeated optimize calls, of several strategy objects
\* and of the history log.
apart == << finished, objects, history_vars >>

\* What a step of an optimize call leaves alone.
surroundings == << construction_vars, example_vars, cli_vars, apart >>

vars == << pc, prompt_text, kw_max_iterations, max_iterations, verbose, initial_score,
           best_prompt, best_score, i, candidate_prompt, calls, result,
           raised, log, surroundings >>

\* The exception int() raises on a malformed total_score (a ValueError),
\* named by its kind in the error taxonomy.
MalformedModelOutput == "MalformedModelOutput"

(* --------------------------- external calls ---------------------------- *)

\* One external call as a call-recording stub sees it: the role called, the
\* prompt passed, and how it ended. out is improved_prompt (generate) or
\* total_score (evaluate); err is the failure of a failed call. No module
\* is given an LM of its own, so the call goes to the default LM that
\* dspy.configure registered last.
Call(role, arg) ==
    [role |-> role, arg |-> arg, examples |-> <<>>, status |-> "pending",
     out |-> <<>>, feedback |-> <<>>, err |-> "", lm |-> dspy_lm]

\* A call that also passes the formatted examples.
CallWithExamples(role, arg, text) == [Call(role, arg) EXCEPT !.examples = text]

Returned(c, out, fb) == [c EXCEPT !.status = "returned", !.out = out, !.feedback = fb]

Failed(c, f) == [c EXCEPT !.status = "failed", !.err = f]

\* calls with its last (the outstanding) call ended as c.
EndLast(c) == [calls EXCEPT ![Len(calls)] = c]

LastCall == calls[Len(calls)]

(* ----------------------- MetricBasedOptimizer -------------------------- *)

\* _log_initial_state: one line when verbose.
log_initial_state(v, n) ==
    IF v THEN << [msg |-> "max iterations", val |-> n] >> ELSE <<>>

\* The log lines of _evaluate_and_log_prompt: the score and the feedback.
log_evaluation(v, label, score, fb) ==
    IF v
    THEN << [msg |-> "score", label |-> label, val |-> score],
            [msg |-> "feedback", val |-> fb] >>
    ELSE <<>>

\* Mutant: a total_score that does not read as an integer counts as 0.
evaluate_and_log_prompt_lenient(total_score) ==
    [ok |-> TRUE, val |-> py_int(total_score).val]

\* _evaluate_and_log_prompt after the evaluator returned: int(total_score).
evaluate_and_log_prompt(total_score) == py_int(total_score)

\* Mutant: the candidate replaces the best whenever the scores differ.
update_best_if_different(cand_prompt, cand_score, bp, bs) ==
    IF cand_score # bs THEN << cand_prompt, cand_score >> ELSE << bp, bs >>

\* Mutant: a tie replaces the incumbent.
update_best_if_not_worse(cand_prompt, cand_score, bp, bs) ==
    IF cand_score >= bs THEN << cand_prompt, cand_score >> ELSE << bp, bs >>

\* Mutant: the comparison is reversed.
update_best_if_worse(cand_prompt, cand_score, bp, bs) ==
    IF cand_score < bs THEN << cand_prompt, cand_score >> ELSE << bp, bs >>

\* Mutant: a better candidate replaces the prompt but not the score.
update_best_prompt_only(cand_prompt, cand_score, bp, bs) ==
    IF cand_score > bs THEN << cand_prompt, bs >> ELSE << bp, bs >>

\* _update_best_if_improved: the (prompt, score) pair kept.
update_best_if_improved(cand_prompt, cand_score, bp, bs) ==
    IF cand_score > bs THEN << cand_prompt, cand_score >> ELSE << bp, bs >>

\* Mutant: the best pair of an earlier call is kept when it scored higher.
initial_best_carried_over(initial_prompt, score, bp, bs) ==
    IF bs > score THEN << bp, bs >> ELSE << initial_prompt, score >>

\* _run_optimization_loop starts from best_prompt = initial_prompt and
\* best_score = initial_score, whatever an earlier call ended with.
initial_best(initial_prompt, score, bp, bs) == << initial_prompt, score >>

\* The log line of _update_best_if_improved.
log_improvement(v, cand_score, bs) ==
    IF v /\ cand_score > bs
    THEN << [msg |-> "better", val |-> cand_score] >> ELSE <<>>

\* Mutant: the loop runs once more than the budget.
range_has_next_inclusive(k, n) == k <= n

\* Mutant: the loop stops one iteration short of the budget.
range_has_next_short(k, n) == k + 1 < n

\* for i in range(self.max_iterations): whether the loop body runs again.
range_has_next(k, n) == k < n

\* Mutant: the generator is conditioned on the most recent candidate.
generator_input_last_candidate(bp, cand) == IF cand = <<>> THEN bp ELSE cand

\* The prompt _process_optimization_iteration hands to the generator.
generator_input(bp, cand) == bp

\* Mutant: the evaluator is handed the incumbent instead of the candidate.
evaluator_input_incumbent(cand, bp) == bp

\* The prompt _process_optimization_iteration hands to the evaluator.
evaluator_input(cand, bp) == cand

\* Mutant: the loop returns the last candidate instead of the best.
loop_result_last_candidate(bp, cand) == IF cand = <<>> THEN bp ELSE cand

\* The value _run_optimization_loop returns.
loop_result(bp, cand) == bp

\* Mutant: a handler wraps whatever was raised in a RuntimeError.
propagate_wrapped(e) == "RuntimeError"

\* An exception raised inside optimize has no handler on its way out: the
\* caller receives the very exception.
propagate(e) == e

\* The dataclass field max_iterations: the keyword, or the field default.
field_max_iterations(kw) == IF kw = <<>> THEN DefaultMaxIterations ELSE kw[1]

(* -------------------------- PromptOptimizer ---------------------------- *)

\* PromptOptimizer has no examples: a strategy other than the example-based
\* one, with no examples file around.
NoExamples ==
    /\ examples = <<>>
    /\ examples_file = <<>>
    /\ file = <<>>
    /\ reads = 0
    /\ writes = 0
    /\ example_generator_model = <<>>
    /\ example_generator_api_key = <<>>
    /\ example_generator_max_tokens = <<>>
    /\ num_examples = DefaultNumExamples
    /\ self_examples = <<>>
    /\ loaded = <<>>
    /\ stdout = <<>>

\* One strategy object before its first completed optimize call, and no
\* history log in use.
Alone ==
    /\ finished = <<>>
    /\ objects = <<>>
    /\ log_file = <<>>
    /\ recorded = <<>>
    /\ limit = <<>>
    /\ entries = <<>>

\* A strategy used as a library: no CLI run is involved.
NoCli ==
    /\ subcommand = ""
    /\ option_api_key = <<>>
    /\ input_prompt = <<>>
    /\ input_read = FALSE
    /\ output = <<>>
    /\ stderr = <<>>
    /\ exit_code = <<>>

\* dspy.LM(self.model, provider="anthropic", api_key=self.api_key,
\* max_tokens=self.max_tokens): the object only records its arguments.
LM(m, k, t) == [model |-> m, api_key |-> k, max_tokens |-> t]

\* The log line of _setup_dspy.
log_setup(v, m, t) ==
    IF v THEN << [msg |-> "configured", model |-> m, val |-> t] >> ELSE <<>>

\* A MetricBasedOptimizer constructed with a model, a credential and the
\* default max_tokens, before optimize is called on it.
Init ==
    /\ entry = "direct"
    /\ optimization_type = "metric"
    /\ model = "m"
    /\ api_key = "k"
    /\ max_tokens = DefaultMaxTokens
    /\ strategy = "metric"
    /\ lm = << LM(model, api_key, max_tokens) >>
    /\ dspy_lm = lm
    /\ NoExamples
    /\ NoCli
    /\ Alone
    /\ pc = "idle"
    /\ prompt_text \in SeedPrompts
    /\ kw_max_iterations \in MaxIterationsKeywords
    /\ max_iterations = field_max_iterations(kw_max_iterations)
    /\ verbose \in BOOLEAN
    /\ initial_score = 0
    /\ best_prompt = <<>>
    /\ best_score = 0
    /\ i = 0
    /\ candidate_prompt = <<>>
    /\ calls = <<>>
    /\ result = <<>>
    /\ raised = ""
    /\ log = <<>>

\* optimize(prompt_text) up to its first external call: _log_initial_state,
\* _setup_modules, then the evaluator is called on prompt_text.
Optimize ==
    /\ pc = "idle"
    /\ strategy = "metric"
    /\ log' = log \o log_initial_state(verbose, max_iterations)
    /\ calls' = Append(calls, Call("evaluate", prompt_text))
    /\ pc' = "seed_evaluation"
    /\ UNCHANGED << prompt_text, kw_max_iterations, max_iterations, verbose, initial_score,
                    best_prompt, best_score, i, candidate_prompt, result,
                    raised >>
    /\ UNCHANGED surroundings

\* The seed evaluation returns: int(total_score), the log lines, then
\* _run_optimization_loop initialises best from the seed.
SeedEvaluationReturns ==
    /\ pc = "seed_evaluation"
    /\ \E ts \in RawScores, fb \in Feedbacks :
         LET parsed == evaluate_and_log_prompt(ts) IN
         /\ calls' = EndLast(Returned(LastCall, ts, fb))
         /\ IF parsed.ok
            THEN /\ initial_score' = parsed.val
                 /\ best_prompt' = initial_best(prompt_text, parsed.val,
                                                best_prompt, best_score)[1]
                 /\ best_score' = initial_best(prompt_text, parsed.val,
                                               best_prompt, best_score)[2]
                 /\ i' = 0
                 /\ log' = log \o log_evaluation(verbose, "Original prompt", parsed.val, fb)
                 /\ pc' = "loop"
                 /\ UNCHANGED raised
            ELSE /\ raised' = propagate(MalformedModelOutput)
                 /\ pc' = "raised"
                 /\ UNCHANGED << initial_score, best_prompt, best_score, i, log >>
    /\ UNCHANGED << prompt_text, kw_max_iterations, max_iterations, verbose, candidate_prompt, result >>
    /\ UNCHANGED surroundings

\* The head of the for loop with iterations left: the generator is called.
LoopGenerate ==
    /\ pc = "loop"
    /\ range_has_next(i, max_iterations)
    /\ calls' = Append(calls, Call("generate", generator_input(best_prompt, candidate_prompt)))
    /\ pc' = "generate"
    /\ UNCHANGED << prompt_text, kw_max_iterations, max_iterations, verbose, initial_score,
                    best_prompt, best_score, i, candidate_prompt, result,
                    raised, log >>
    /\ UNCHANGED surroundings

\* The generator returns improved_prompt; the evaluator is called on it.
GeneratorReturns ==
    /\ pc = "generate"
    /\ \E p \in GeneratedPrompts :
         /\ candidate_prompt' = p
         /\ calls' = Append(EndLast(Returned(LastCall, p, <<>>)),
                            Call("evaluate", evaluator_input(p, best_prompt)))
    /\ pc' = "evaluate"
    /\ UNCHANGED << prompt_text, kw_max_iterations, max_iterations, verbose, initial_score,
                    best_prompt, best_score, i, result, raised, log >>
    /\ UNCHANGED surroundings

\* The candidate's evaluation returns: int(total_score), the log lines,
\* _update_best_if_improved, and the loop variable advances.
CandidateEvaluationReturns ==
    /\ pc = "evaluate"
    /\ \E ts \in RawScores, fb \in Feedbacks :
         LET parsed == evaluate_and_log_prompt(ts)
             best == update_best_if_improved(candidate_prompt, parsed.val,
                                             best_prompt, best_score)
         IN
         /\ calls' = EndLast(Returned(LastCall, ts, fb))
         /\ IF parsed.ok
            THEN /\ best_prompt' = best[1]
                 /\ best_score' = best[2]
                 /\ i' = i + 1
                 /\ log' = log \o log_evaluation(verbose, "Iteration", parsed.val, fb)
                               \o log_improvement(verbose, parsed.val, best_score)
                 /\ pc' = "loop"
                 /\ UNCHANGED raised
            ELSE /\ raised' = propagate(MalformedModelOutput)
                 /\ pc' = "raised"
                 /\ UNCHANGED << best_prompt, best_score, i, log >>
    /\ UNCHANGED << prompt_text, kw_max_iterations, max_iterations, verbose, initial_score,
                    candidate_prompt, result >>
    /\ UNCHANGED surroundings

\* The outstanding external call fails: the exception leaves optimize.
ExternalCallFails ==
    /\ pc \in {"seed_evaluation", "generate", "evaluate", "refine",
               "examples_generation", "example_refine"}
    /\ \E f \in Failures :
         /\ calls' = EndLast(Failed(LastCall, f))
         /\ raised' = propagate(f)
    /\ pc' = "raised"
    /\ UNCHANGED << prompt_text, kw_max_iterations, max_iterations, verbose, initial_score,
                    best_prompt, best_score, i, candidate_prompt, result, log >>
    /\ UNCHANGED surroundings

\* range() is exhausted: _run_optimization_loop returns best_prompt.
LoopReturn ==
    /\ pc = "loop"
    /\ ~range_has_next(i, max_iterations)
    /\ result' = << loop_result(best_prompt, candidate_prompt) >>
    /\ pc' = "done"
    /\ UNCHANGED << prompt_text, kw_max_iterations, max_iterations, verbose, initial_score,
                    best_prompt, best_score, i, candidate_prompt, calls,
                    raised, log >>
    /\ UNCHANGED surroundings

Next ==
    \/ Optimize
    \/ SeedEvaluationReturns
    \/ LoopGenerate
    \/ GeneratorReturns
    \/ CandidateEvaluationReturns
    \/ ExternalCallFails
    \/ LoopReturn

Spec == Init /\ [][Next]_vars

\* Every external call ends (returns or fails) and the loop's own steps are
\* taken: optimize is one synchronous, blocking call.
FairSpec == Spec /\ WF_vars(Next)

(* ------------- construction, the dispatcher, self-refinement ----------- *)

\* The locals of the metric loop.
loop_locals == << initial_score, best_prompt, best_score, i, candidate_prompt >>

\* The ValueError optimize_prompt raises on a tag it does not know.
UnknownOptimizationType == "ValueError: Unknown optimization type"

\* The TypeError of a call that does not fit the callee's parameters.
TypeError == "TypeError"

\* Mutant: a tag the dispatcher does not know selects self-refinement.
selected_optimizer_default_self(tag) ==
    IF tag = "example" THEN "example"
    ELSE IF tag = "metric" THEN "metric"
    ELSE "self"

\* The if/elif chain of optimize_prompt: the class a tag selects, "" when
\* the else branch raises.
selected_optimizer(tag) ==
    IF tag = "example" THEN "example"
    ELSE IF tag = "metric" THEN "metric"
    ELSE IF tag = "self" THEN "self"
    ELSE ""

\* Whether a strategy class can be called with the keywords model, api_key,
\* max_tokens, ...: MetricBasedOptimizer inherits the dataclass __init__;
\* SelfRefinementOptimizer and ExampleBasedOptimizer define
\* __init__(self, config) and reject keywords with a TypeError.
accepts_keywords(cls) == cls = "metric"

\* Mutant: self-refinement returns the prompt it was given.
refined_prompt_echo(improved, prompt) == prompt

\* The value SelfRefinementOptimizer.optimize returns: result.improved_prompt.
refined_prompt(improved, prompt) == improved

\* The log line optimize of the self strategy writes before the call.
log_self_start(v) == IF v THEN << [msg |-> "self-refinement"] >> ELSE <<>>

\* The log line optimize of the self strategy writes after the call.
log_analysis(v, a) == IF v THEN << [msg |-> "analysis", val |-> a] >> ELSE <<>>

\* A caller about to obtain a strategy, directly from its class or through
\* optimize_prompt, with arguments of every kind the signatures accept.
StrategyInit ==
    /\ pc = "start"
    /\ entry \in {"direct", "factory"}
    /\ optimization_type \in (IF entry = "direct" THEN StrategyTags
                                                 ELSE OptimizationTypes)
    /\ model \in Models
    /\ api_key \in ApiKeys
    /\ max_tokens \in TokenBudgets
    /\ strategy = ""
    /\ lm = <<>>
    /\ dspy_lm = <<>>
    /\ IF entry = "direct" /\ optimization_type = "example"
       THEN /\ examples \in {<<>>} \cup { << l >> : l \in ExampleLists }
            /\ examples_file \in { <<>>, << "examples.json" >> }
            /\ file \in (IF examples_file = <<>> THEN { <<>> } ELSE Files)
            /\ example_generator_model \in GeneratorModels
            /\ example_generator_api_key \in GeneratorApiKeys
            /\ example_generator_max_tokens = <<>>
            /\ num_examples = DefaultNumExamples
            /\ reads = 0
            /\ writes = 0
            /\ self_examples = <<>>
            /\ loaded = <<>>
            /\ stdout = <<>>
       ELSE NoExamples
    /\ NoCli
    /\ Alone
    /\ prompt_text \in SeedPrompts
    /\ kw_max_iterations \in (IF optimization_type = "metric"
                                THEN ConstructionBudgets ELSE {<<>>})
    /\ max_iterations = field_max_iterations(kw_max_iterations)
    /\ verbose \in BOOLEAN
    /\ initial_score = 0
    /\ best_prompt = <<>>
    /\ best_score = 0
    /\ i = 0
    /\ candidate_prompt = <<>>
    /\ calls = <<>>
    /\ result = <<>>
    /\ raised = ""
    /\ log = <<>>

\* SelfRefinementOptimizer(config) or MetricBasedOptimizer(model=...,
\* api_key=..., ...): the dataclass __init__ stores the fields, then
\* __post_init__ -> _setup_dspy creates self.lm and registers it.
Construct ==
    /\ pc = "start"
    /\ entry = "direct"
    /\ optimization_type \in {"self", "metric"}
    /\ strategy' = optimization_type
    /\ lm' = << LM(model, api_key, max_tokens) >>
    /\ dspy_lm' = lm'
    /\ log' = log \o log_setup(verbose, model, max_tokens)
    /\ pc' = "idle"
    /\ UNCHANGED << entry, optimization_type, model, api_key, max_tokens >>
    /\ UNCHANGED << prompt_text, kw_max_iterations, max_iterations, verbose,
                    calls, result, raised, loop_locals >>
    /\ UNCHANGED << example_vars, cli_vars, apart >>

\* optimize_prompt(prompt_text, model=..., api_key=..., optimization_type=...):
\* the if/elif chain up to the construction of the optimizer.
OptimizePrompt ==
    /\ pc = "start"
    /\ entry = "factory"
    /\ LET cls == selected_optimizer(optimization_type) IN
         IF cls = ""
         THEN /\ raised' = UnknownOptimizationType
              /\ pc' = "raised"
              /\ UNCHANGED << strategy, lm, dspy_lm, log >>
         ELSE IF ~accepts_keywords(cls)
         THEN /\ raised' = TypeError
              /\ pc' = "raised"
              /\ UNCHANGED << strategy, lm, dspy_lm, log >>
         ELSE /\ strategy' = cls
              /\ lm' = << LM(model, api_key, max_tokens) >>
              /\ dspy_lm' = lm'
              /\ log' = log \o log_setup(verbose, model, max_tokens)
              /\ pc' = "idle"
              /\ UNCHANGED raised
    /\ UNCHANGED << entry, optimization_type, model, api_key, max_tokens >>
    /\ UNCHANGED << prompt_text, kw_max_iterations, max_iterations, verbose,
                    calls, result, loop_locals >>
    /\ UNCHANGED << example_vars, cli_vars, apart >>

\* SelfRefinementOptimizer.optimize(prompt_text) up to its external call:
\* the refiner is called on prompt_text.
SelfOptimize ==
    /\ pc = "idle"
    /\ strategy = "self"
    /\ log' = log \o log_self_start(verbose)
    /\ calls' = Append(calls, Call("refine", prompt_text))
    /\ pc' = "refine"
    /\ UNCHANGED << prompt_text, kw_max_iterations, max_iterations, verbose,
                    result, raised, loop_locals >>
    /\ UNCHANGED surroundings

\* The refiner returns (analysis, improved_prompt): optimize logs the
\* analysis and returns improved_prompt.
RefinerReturns ==
    /\ pc = "refine"
    /\ strategy = "self"
    /\ \E p \in GeneratedPrompts, a \in Feedbacks :
         /\ calls' = EndLast(Returned(LastCall, p, a))
         /\ log' = log \o log_analysis(verbose, a)
         /\ result' = << refined_prompt(p, prompt_text) >>
    /\ pc' = "done"
    /\ UNCHANGED << prompt_text, kw_max_iterations, max_iterations, verbose,
                    raised, loop_locals >>
    /\ UNCHANGED surroundings

\* The print of _log_generation_start.
print_generation_start(v, n, m) ==
    IF v THEN << [msg |-> "generating", val |-> n, model |-> m] >> ELSE <<>>

\* The prints of _log_success and _log_error.
print_parse_outcome(v, r, text) ==
    IF ~v THEN <<>>
    ELSE IF r.ok THEN << [msg |-> "generated", val |-> Len(r.examples)] >>
    ELSE IF r.err = GenerationFailed
    THEN << [msg |-> "failed to parse"], [msg |-> "raw response", val |-> text] >>
    ELSE <<>>

\* The log line of _generate_examples.
log_generating(v, t) ==
    IF v THEN << [msg |-> "generating examples", val |-> t] >> ELSE <<>>

\* ExampleBasedOptimizer(config): the base fields and _setup_dspy, the
\* example fields, then _initialize_examples: the in-memory list, or
\* _load_examples_from_file, or _generate_examples up to the generation
\* call (ExampleGenerator's __post_init__ registers the generator's LM).
ConstructExample ==
    /\ pc = "start"
    /\ entry = "direct"
    /\ optimization_type = "example"
    /\ lm' = << LM(model, api_key, max_tokens) >>
    /\ LET source == examples_source(examples, examples_file)
           from_file == load_examples_from_file(file)
           gm == str_or(example_generator_model, DefaultExampleGeneratorModel)
           gk == str_or(example_generator_api_key, api_key)
           gt == int_or(example_generator_max_tokens, max_tokens)
           rejected == generator_post_init(gm, gk, num_examples, gt)
       IN  CASE source = "memory" ->
                  /\ self_examples' = examples
                  /\ strategy' = "example"
                  /\ pc' = "idle"
                  /\ dspy_lm' = lm'
                  /\ log' = log \o log_setup(verbose, model, max_tokens)
                  /\ UNCHANGED << reads, calls, raised, stdout >>
             [] source = "file" ->
                  /\ reads' = reads + 1
                  /\ dspy_lm' = lm'
                  /\ log' = log \o log_setup(verbose, model, max_tokens)
                  /\ IF from_file.ok
                     THEN /\ self_examples' = << from_file.examples >>
                          /\ strategy' = "example"
                          /\ pc' = "idle"
                          /\ UNCHANGED raised
                     ELSE /\ raised' = propagate(from_file.err)
                          /\ pc' = "raised"
                          /\ UNCHANGED << self_examples, strategy >>
                  /\ UNCHANGED << calls, stdout >>
             [] source = "generate" ->
                  /\ log' = log \o log_setup(verbose, model, max_tokens)
                                \o log_generating(verbose, gt)
                  /\ IF rejected # ""
                     THEN /\ raised' = propagate(rejected)
                          /\ pc' = "raised"
                          /\ dspy_lm' = lm'
                          /\ UNCHANGED << calls, stdout >>
                     ELSE /\ dspy_lm' = << LM(gm, gk, gt) >>
                          /\ stdout' = stdout \o print_generation_start(verbose, num_examples, gm)
                          /\ calls' = Append(calls,
                                  [Call("generate_examples", int_str(num_examples))
                                     EXCEPT !.lm = dspy_lm'])
                          /\ pc' = "examples_generation"
                          /\ UNCHANGED raised
                  /\ UNCHANGED << reads, self_examples, strategy >>
    /\ UNCHANGED << entry, optimization_type, model, api_key, max_tokens >>
    /\ UNCHANGED << examples, examples_file, file, writes, example_generator_model,
                    example_generator_api_key, example_generator_max_tokens,
                    num_examples, loaded >>
    /\ UNCHANGED << prompt_text, kw_max_iterations, max_iterations, verbose,
                    result, loop_locals >>
    /\ UNCHANGED << cli_vars, apart >>

\* The generation call returns its examples text: _parse_response, and
\* with the list it returns __init__ sets self._examples.
ExamplesGenerated ==
    /\ pc = "examples_generation"
    /\ entry = "direct"
    /\ \E text \in ResponseTexts :
         LET parsed == parse_response(text) IN
         /\ calls' = EndLast(Returned(LastCall, text, <<>>))
         /\ stdout' = stdout \o print_parse_outcome(verbose, parsed, text)
         /\ IF parsed.ok
            THEN /\ self_examples' = << parsed.examples >>
                 /\ strategy' = "example"
                 /\ pc' = "idle"
                 /\ UNCHANGED raised
            ELSE /\ raised' = propagate(parsed.err)
                 /\ pc' = "raised"
                 /\ UNCHANGED << self_examples, strategy >>
    /\ UNCHANGED << entry, optimization_type, model, api_key, max_tokens, lm, dspy_lm >>
    /\ UNCHANGED << examples, examples_file, file, reads, writes,
                    example_generator_model, example_generator_api_key,
                    example_generator_max_tokens, num_examples, loaded >>
    /\ UNCHANGED << prompt_text, kw_max_iterations, max_iterations, verbose,
                    result, log, loop_locals >>
    /\ UNCHANGED << cli_vars, apart >>

\* The log line optimize of the example strategy writes before the call.
log_example_start(v) == IF v THEN << [msg |-> "example-based"] >> ELSE <<>>

\* ExampleBasedOptimizer.optimize(prompt_text) up to its external call: the
\* refiner is called on prompt_text and the formatted examples.
ExampleOptimize ==
    /\ pc = "idle"
    /\ strategy = "example"
    /\ log' = log \o log_example_start(verbose)
    /\ calls' = Append(calls, CallWithExamples("refine_with_examples", prompt_text,
                                               format_examples(self_examples[1])))
    /\ pc' = "example_refine"
    /\ UNCHANGED << prompt_text, kw_max_iterations, max_iterations, verbose,
                    result, raised, loop_locals >>
    /\ UNCHANGED surroundings

\* Mutant: optimize of the example strategy returns the prompt it was given.
example_refined_prompt_echo(improved, prompt) == prompt

\* The value ExampleBasedOptimizer.optimize returns:
\* refinement_payload.improved_prompt.
example_refined_prompt(improved, prompt) == improved

\* The refiner returns (analysis, improved_prompt): optimize logs the
\* analysis and returns improved_prompt.
ExampleRefinerReturns ==
    /\ pc = "example_refine"
    /\ strategy = "example"
    /\ \E p \in GeneratedPrompts, a \in Feedbacks :
         /\ calls' = EndLast(Returned(LastCall, p, a))
         /\ log' = log \o log_analysis(verbose, a)
         /\ result' = << example_refined_prompt(p, prompt_text) >>
    /\ pc' = "done"
    /\ UNCHANGED << prompt_text, kw_max_iterations, max_iterations, verbose,
                    raised, loop_locals >>
    /\ UNCHANGED surroundings

StrategyNext ==
    \/ Construct
    \/ ConstructExample
    \/ ExamplesGenerated
    \/ OptimizePrompt
    \/ SelfOptimize
    \/ RefinerReturns
    \/ ExampleOptimize
    \/ ExampleRefinerReturns
    \/ Next

StrategySpec == StrategyInit /\ [][StrategyNext]_vars

(* ------------------ several optimize calls on one object --------------- *)

\* How many further optimize calls a caller makes on the object.
MaxRepeats == 1

\* The max_iterations keywords of the objects that are called repeatedly.
RepeatBudgets == { << 0 >>, << 1 >> }

\* A caller about to construct an example or a metric strategy from its
\* class, to call optimize on it several times.
RepeatInit ==
    /\ pc = "start"
    /\ entry = "direct"
    /\ optimization_type \in {"example", "metric"}
    /\ model = "m"
    /\ api_key = "k"
    /\ max_tokens = DefaultMaxTokens
    /\ strategy = ""
    /\ lm = <<>>
    /\ dspy_lm = <<>>
    /\ IF optimization_type = "example"
       THEN /\ examples \in {<<>>} \cup { << l >> : l \in ExampleLists }
            /\ examples_file \in { <<>>, << "examples.json" >> }
            /\ file \in (IF examples_file = <<>> THEN { <<>> } ELSE Files)
            /\ example_generator_model \in GeneratorModels
            /\ example_generator_api_key = <<>>
            /\ example_generator_max_tokens = <<>>
            /\ num_examples = DefaultNumExamples
            /\ reads = 0
            /\ writes = 0
            /\ self_examples = <<>>
            /\ loaded = <<>>
            /\ stdout = <<>>
       ELSE NoExamples
    /\ NoCli
    /\ Alone
    /\ prompt_text \in SeedPrompts
    /\ kw_max_iterations \in (IF optimization_type = "metric"
                                THEN RepeatBudgets ELSE {<<>>})
    /\ max_iterations = field_max_iterations(kw_max_iterations)
    /\ verbose = FALSE
    /\ initial_score = 0
    /\ best_prompt = <<>>
    /\ best_score = 0
    /\ i = 0
    /\ candidate_prompt = <<>>
    /\ calls = <<>>
    /\ result = <<>>
    /\ raised = ""
    /\ log = <<>>

\* optimize has returned and the caller calls it again on the same object
\* with another prompt. The finished call is noted with its argument, its
\* result and the length of the call log at its end. Nothing of the
\* object changes between the calls; the locals of the finished frame are
\* gone, the variables holding them keep their last values until the new
\* frame assigns them.
OptimizeAgain ==
    /\ pc = "done"
    /\ Len(finished) < MaxRepeats
    /\ finished' = Append(finished, [prompt_text |-> prompt_text, result |-> result,
                                     calls |-> Len(calls), reads |-> reads])
    /\ prompt_text' \in SeedPrompts
    /\ result' = <<>>
    /\ pc' = "idle"
    /\ UNCHANGED << kw_max_iterations, max_iterations, verbose, loop_locals, calls,
                    raised, log >>
    /\ UNCHANGED << construction_vars, example_vars, cli_vars, objects, history_vars >>

RepeatNext ==
    \/ Construct
    \/ ConstructExample
    \/ ExamplesGenerated
    \/ ExampleOptimize
    \/ ExampleRefinerReturns
    \/ Next
    \/ OptimizeAgain

RepeatSpec == RepeatInit /\ [][RepeatNext]_vars

(* --------------------------- the examples file ------------------------- *)

\* A caller holding a list of examples, next to an examples file in any
\* state, about to save the list or to load the file with one of the two
\* loaders (entry names the loader).
FileInit ==
    /\ pc = "file"
    /\ entry \in {"load_examples", "_load_examples_from_file"}
    /\ file \in Files
    /\ examples \in { << l >> : l \in SavedLists }
    /\ examples_file = << "examples.json" >>
    /\ reads = 0
    /\ writes = 0
    /\ loaded = <<>>
    /\ example_generator_model = <<>>
    /\ example_generator_api_key = <<>>
    /\ example_generator_max_tokens = <<>>
    /\ num_examples = DefaultNumExamples
    /\ self_examples = <<>>
    /\ stdout = <<>>
    /\ NoCli
    /\ Alone
    /\ optimization_type = "example"
    /\ model = "m"
    /\ api_key = "k"
    /\ max_tokens = DefaultMaxTokens
    /\ strategy = ""
    /\ lm = <<>>
    /\ dspy_lm = <<>>
    /\ prompt_text = <<>>
    /\ kw_max_iterations = <<>>
    /\ max_iterations = DefaultMaxIterations
    /\ verbose = FALSE
    /\ initial_score = 0
    /\ best_prompt = <<>>
    /\ best_score = 0
    /\ i = 0
    /\ candidate_prompt = <<>>
    /\ calls = <<>>
    /\ result = <<>>
    /\ raised = ""
    /\ log = <<>>

\* What the file operations leave alone.
beside_file == << prompt_text, kw_max_iterations, max_iterations, verbose, loop_locals,
                 calls, result, log, construction_vars, examples, examples_file,
                 example_generator_model, example_generator_api_key,
                 example_generator_max_tokens, num_examples, self_examples, stdout,
                 cli_vars, apart >>

\* ExampleGenerator.save_examples(examples, path)
SaveExamples ==
    /\ pc = "file"
    /\ file' = << saved_text(examples[1]) >>
    /\ writes' = writes + 1
    /\ pc' = "saved"
    /\ UNCHANGED << reads, loaded, raised >>
    /\ UNCHANGED beside_file

\* ExampleGenerator.load_examples(path)
LoadExamples ==
    /\ pc \in {"file", "saved"}
    /\ entry = "load_examples"
    /\ reads' = reads + 1
    /\ LET r == load_examples(file) IN
         IF r.ok
         THEN /\ loaded' = << r.examples >>
              /\ pc' = "loaded"
              /\ UNCHANGED raised
         ELSE /\ raised' = propagate(r.err)
              /\ pc' = "raised"
              /\ UNCHANGED loaded
    /\ UNCHANGED << file, writes >>
    /\ UNCHANGED beside_file

\* _load_examples_from_file(path)
LoadExamplesFromFile ==
    /\ pc \in {"file", "saved"}
    /\ entry = "_load_examples_from_file"
    /\ reads' = reads + 1
    /\ LET r == load_examples_from_file(file) IN
         IF r.ok
         THEN /\ loaded' = << r.examples >>
              /\ pc' = "loaded"
              /\ UNCHANGED raised
         ELSE /\ raised' = propagate(r.err)
              /\ pc' = "raised"
              /\ UNCHANGED loaded
    /\ UNCHANGED << file, writes >>
    /\ UNCHANGED beside_file

FileNext ==
    \/ SaveExamples
    \/ LoadExamples
    \/ LoadExamplesFromFile

FileSpec == FileInit /\ [][FileNext]_vars

(* --------------------------------- the CLI ------------------------------ *)

\* The four subcommands main registers.
Subcommands == { "self", "example", "metric", "generate-examples" }

\* Values of --api-key / ANTHROPIC_API_KEY: absent, empty, given.
ApiKeyOptions == { <<>>, << "" >>, << "k" >> }

\* Texts of the input_prompt file: the seeds, and a prompt with surrounding
\* white space.
InputTexts == SeedPrompts \cup { << " ", "p", Newline >> }

\* Values of --num-examples.
NumExamplesOptions == { 0, DefaultNumExamples }

\* Mutant: only a missing key, not an empty one, is refused.
validate_api_key_none_only(k) == k # <<>>

\* validate_api_key: "if not api_key" is false, so the key is returned.
validate_api_key(k) == k # <<>> /\ k[1] # ""

\* The message validate_api_key echoes before sys.exit(1).
ApiKeyRequired == [msg |-> "error", val |-> "Anthropic API key is required"]

\* read_input_prompt: input_prompt.read().strip()
read_input_prompt(text) == strip(text)

\* echo_start: the verbose start message, on the error stream.
echo_start(kind, m, t, v) ==
    IF v THEN << [msg |-> "optimizing", kind |-> kind, model |-> m, val |-> t] >>
    ELSE <<>>

\* echo_generation_start: the verbose generation message, on the error stream.
echo_generation_start(n, m, t, v) ==
    IF v THEN << [msg |-> "generating", num |-> n, model |-> m, val |-> t] >>
    ELSE <<>>

\* notify_examples_path, verbose: two lines on the error stream.
notify_examples_path_err(path, v) ==
    IF v THEN << [msg |-> "examples saved", val |-> path], [msg |-> "review hint"] >>
    ELSE <<>>

\* notify_examples_path, not verbose: the path on standard output.
notify_examples_path_out(path, v) ==
    IF v THEN <<>> ELSE << [msg |-> "path", val |-> path] >>

\* How each subcommand calls its optimizer class: self_cmd and
\* create_example_optimizer pass keywords, metric_cmd passes one config.
cli_passes_keywords(sub) == sub \in {"self", "example"}

\* The status the caller of main sees: the argument of sys.exit, or 1 when
\* an exception leaves main (the interpreter's status for an uncaught
\* exception), else none yet.
exit_status ==
    IF exit_code # <<>> THEN exit_code
    ELSE IF pc = "raised" THEN << 1 >>
    ELSE <<>>

\* A CLI invocation after click parsed its arguments, about to call the
\* subcommand's function.
CliInit ==
    /\ pc = "cli"
    /\ entry = "cli"
    /\ subcommand \in Subcommands
    /\ option_api_key \in ApiKeyOptions
    /\ input_prompt \in (IF subcommand = "generate-examples" THEN { <<>> }
                                                            ELSE InputTexts)
    /\ input_read = FALSE
    /\ output = <<>>
    /\ stderr = <<>>
    /\ exit_code = <<>>
    /\ Alone
    /\ optimization_type = (IF subcommand = "generate-examples" THEN ""
                                                               ELSE subcommand)
    /\ model \in Models
    /\ api_key = ""
    /\ max_tokens \in TokenBudgets
    /\ strategy = ""
    /\ lm = <<>>
    /\ dspy_lm = <<>>
    /\ examples = <<>>
    /\ examples_file = (IF subcommand = "generate-examples"
                          THEN << "examples.json" >> ELSE <<>>)
    /\ file = <<>>
    /\ reads = 0
    /\ writes = 0
    /\ example_generator_model = <<>>
    /\ example_generator_api_key = <<>>
    /\ example_generator_max_tokens = <<>>
    /\ num_examples \in (IF subcommand = "generate-examples"
                           THEN NumExamplesOptions ELSE { DefaultNumExamples })
    /\ self_examples = <<>>
    /\ loaded = <<>>
    /\ stdout = <<>>
    /\ prompt_text = <<>>
    /\ kw_max_iterations \in (IF subcommand = "metric"
                                THEN ConstructionBudgets ELSE { <<>> })
    /\ max_iterations = field_max_iterations(kw_max_iterations)
    /\ verbose \in BOOLEAN
    /\ initial_score = 0
    /\ best_prompt = <<>>
    /\ best_score = 0
    /\ i = 0
    /\ candidate_prompt = <<>>
    /\ calls = <<>>
    /\ result = <<>>
    /\ raised = ""
    /\ log = <<>>

\* What no CLI function touches before its optimizer runs.
beside_cli == << kw_max_iterations, max_iterations, verbose, loop_locals, result, log,
                entry, optimization_type, model, max_tokens, examples, examples_file,
                reads, example_generator_model, example_generator_api_key,
                example_generator_max_tokens, num_examples, self_examples, loaded,
                subcommand, option_api_key, input_prompt, output, apart >>

\* The body the three optimizing subcommands share: validate_api_key,
\* read_input_prompt, echo_start, then the construction of the optimizer.
\* Each subcommand calls its class in the convention the class does not
\* accept, so the call raises TypeError and neither optimize nor
\* write_output_with_logging is reached.
run_optimization(sub, kind) ==
    /\ IF ~validate_api_key(option_api_key)
       THEN /\ stderr' = Append(stderr, ApiKeyRequired)
            /\ exit_code' = << 1 >>
            /\ pc' = "exited"
            /\ UNCHANGED << input_read, prompt_text, api_key, raised,
                            strategy, lm, dspy_lm >>
       ELSE /\ input_read' = TRUE
            /\ prompt_text' = read_input_prompt(input_prompt)
            /\ stderr' = stderr \o echo_start(kind, model, max_tokens, verbose)
            /\ api_key' = option_api_key[1]
            /\ IF accepts_keywords(sub) = cli_passes_keywords(sub)
               THEN /\ strategy' = sub
                    /\ lm' = << LM(model, api_key', max_tokens) >>
                    /\ dspy_lm' = lm'
                    /\ pc' = "idle"
                    /\ UNCHANGED raised
               ELSE /\ raised' = TypeError
                    /\ pc' = "raised"
                    /\ UNCHANGED << strategy, lm, dspy_lm >>
            /\ UNCHANGED exit_code
    /\ UNCHANGED << calls, file, writes, stdout >>
    /\ UNCHANGED beside_cli

\* self_cmd._run_self_refinement
RunSelfRefinement ==
    /\ pc = "cli"
    /\ subcommand = "self"
    /\ run_optimization("self", "self-refinement")

\* example_cmd._run_optimization
RunOptimization ==
    /\ pc = "cli"
    /\ subcommand = "example"
    /\ run_optimization("example", "example-based")

\* metric_cmd._run_metric_optimization
RunMetricOptimization ==
    /\ pc = "cli"
    /\ subcommand = "metric"
    /\ run_optimization("metric", "metric-based")

\* generate_examples_cmd._generate_and_save_examples up to the generation
\* call: validate_api_key, echo_generation_start, ExampleGenerator(...) with
\* its __post_init__, then write_examples -> generate_examples.
GenerateAndSaveExamples ==
    /\ pc = "cli"
    /\ subcommand = "generate-examples"
    /\ IF ~validate_api_key(option_api_key)
       THEN /\ stderr' = Append(stderr, ApiKeyRequired)
            /\ exit_code' = << 1 >>
            /\ pc' = "exited"
            /\ UNCHANGED << api_key, raised, dspy_lm, stdout, calls >>
       ELSE /\ stderr' = stderr \o echo_generation_start(num_examples, model,
                                                          max_tokens, verbose)
            /\ api_key' = option_api_key[1]
            /\ LET rejected == generator_post_init(model, api_key', num_examples,
                                                   max_tokens)
               IN  IF rejected # ""
                   THEN /\ raised' = propagate(rejected)
                        /\ pc' = "raised"
                        /\ UNCHANGED << dspy_lm, stdout, calls >>
                   ELSE /\ dspy_lm' = << LM(model, api_key', max_tokens) >>
                        /\ stdout' = stdout \o print_generation_start(verbose,
                                                      num_examples, model)
                        /\ calls' = Append(calls,
                                [Call("generate_examples", int_str(num_examples))
                                   EXCEPT !.lm = dspy_lm'])
                        /\ pc' = "examples_generation"
                        /\ UNCHANGED raised
            /\ UNCHANGED exit_code
    /\ UNCHANGED << input_read, prompt_text, strategy, lm, file, writes >>
    /\ UNCHANGED beside_cli

\* The generation call returns its examples text: _parse_response, then
\* save_examples writes the file, notify_examples_path tells where, and
\* the command returns (click's main exits with 0). A parse failure leaves
\* main as the exception _parse_response raised.
CliExamplesGenerated ==
    /\ pc = "examples_generation"
    /\ entry = "cli"
    /\ \E text \in ResponseTexts :
         LET parsed == parse_response(text) IN
         /\ calls' = EndLast(Returned(LastCall, text, <<>>))
         /\ IF parsed.ok
            THEN /\ file' = << saved_text(parsed.examples) >>
                 /\ writes' = writes + 1
                 /\ stderr' = stderr \o notify_examples_path_err(examples_file[1], verbose)
                 /\ stdout' = stdout \o print_parse_outcome(verbose, parsed, text)
                                     \o notify_examples_path_out(examples_file[1], verbose)
                 /\ exit_code' = << 0 >>
                 /\ pc' = "exited"
                 /\ UNCHANGED raised
            ELSE /\ stdout' = stdout \o print_parse_outcome(verbose, parsed, text)
                 /\ raised' = propagate(parsed.err)
                 /\ pc' = "raised"
                 /\ UNCHANGED << file, writes, stderr, exit_code >>
    /\ UNCHANGED << input_read, prompt_text, api_key, strategy, lm, dspy_lm >>
    /\ UNCHANGED beside_cli

CliNext ==
    \/ RunSelfRefinement
    \/ RunOptimization
    \/ RunMetricOptimization
    \/ GenerateAndSaveExamples
    \/ CliExamplesGenerated
    \/ ExternalCallFails

CliSpec == CliInit /\ [][CliNext]_vars

(* ---------------------------- the history log -------------------------- *)

\* json.dump(v, fh) with the default separators and no indentation: the
\* text of one line, a line break inside a string being written as \n.
RECURSIVE json_dump(_)
json_dump(v) ==
    LET RECURSIVE elements(_, _)
        elements(items, first) ==
            IF items = <<>> THEN <<>>
            ELSE (IF first THEN <<>> ELSE << ",", " " >>)
                 \o json_dump(Head(items))
                 \o elements(Tail(items), FALSE)
        RECURSIVE members(_, _)
        members(items, first) ==
            IF items = <<>> THEN <<>>
            ELSE (IF first THEN <<>> ELSE << ",", " " >>)
                 \o << Quote >> \o json_escape(Head(items)[1]) \o << Quote, ":", " " >>
                 \o json_dump(Head(items)[2])
                 \o members(Tail(items), FALSE)
    IN  CASE v.t = "str" -> << Quote >> \o json_escape(v.v) \o << Quote >>
          [] v.t = "int" -> int_str(v.v)
          [] v.t = "null" -> << "null" >>
          [] v.t = "list" -> << "[" >> \o elements(v.v, TRUE) \o << "]" >>
          [] v.t = "dict" -> << "{" >> \o members(v.v, TRUE) \o << "}" >>

\* The positions where a line of a text ends: a \n, or a \r that no \n
\* follows (\r\n is one line break).
line_ends(t) ==
    { k \in 1..Len(t) : \/ t[k] = Newline
                        \/ t[k] = "\r" /\ ~(k < Len(t) /\ t[k + 1] = Newline) }

\* str.splitlines(): the lines of a text, cut at \n, \r and \r\n, without
\* the line breaks; a text that ends with a line break has no empty last
\* line.
splitlines(t) ==
    LET ends == line_ends(t)
        stops == ends \cup (IF Len(t) > 0 /\ Len(t) \notin ends THEN {Len(t) + 1} ELSE {})
        stop(n) == CHOOSE e \in stops : Cardinality({ y \in stops : y <= e }) = n
        after(e) == IF \E y \in ends : y < e
                    THEN 1 + CHOOSE y \in ends : y < e /\ \A z \in ends : z < e => z <= y
                    ELSE 1
        before(e) == IF e <= Len(t) /\ t[e] = Newline /\ e > 1 /\ t[e - 1] = "\r"
                     THEN e - 2 ELSE e - 1
    IN  [n \in 1..Cardinality(stops) |-> SubSeq(t, after(stop(n)), before(stop(n)))]

\* lines[-limit:] of a Python list: the last limit items for a positive
\* limit (all of them when there are fewer); -0 is 0, so lines[-0:] is
\* lines[0:], the whole list; a negative limit skips the first -limit.
last_lines(lines, k) ==
    LET n == Len(lines)
        first == IF k > 0 THEN (IF k >= n THEN 0 ELSE n - k)
                 ELSE (IF 0 - k >= n THEN n ELSE 0 - k)
    IN  SubSeq(lines, first + 1, n)

\* The loop of load_history: json.loads of every line, a line that raises
\* JSONDecodeError being skipped.
RECURSIVE decoded_lines(_)
decoded_lines(lines) ==
    IF lines = <<>> THEN <<>>
    ELSE LET d == json_loads(Head(lines))
         IN  (IF d.ok THEN << d.val >> ELSE <<>>) \o decoded_lines(Tail(lines))

\* load_history(limit, log_file), f being the file at log_file.
load_history(k, f) ==
    IF f = <<>> THEN <<>>
    ELSE LET lines == splitlines(f[1])
         IN  decoded_lines(IF k = <<>> THEN lines ELSE last_lines(lines, k[1]))

\* The file after record_history(data, log_file): opened in append mode
\* (created when missing), one json.dump line and a line break added.
appended(f, data) ==
    << (IF f = <<>> THEN <<>> ELSE f[1]) \o json_dump(data) \o << Newline >> >>

\* The data a caller records: mappings with string keys, holding strings
\* (one with a quote, a backslash and a line break in it), integers, None
\* and a list.
HistoryData ==
    { JDict(<<>>),
      JDict(<< << << "prompt" >>, JStr(<< "p" >>) >>,
               << << "score" >>, JInt(0 - 3) >> >>),
      JDict(<< << << "prompt" >>, JStr(<< "p", Newline, Quote, Backslash, "q" >>) >>,
               << << "tags" >>, JList(<< JStr(<< "a" >>), JNull, JInt(12) >>) >> >>) }

\* The limit arguments of load_history: None and 0..MaxLimit.
Limits == { <<>> } \cup { << k >> : k \in 0..MaxLimit }

\* A caller of the history module, the log file not yet there.
HistoryInit ==
    /\ pc = "history"
    /\ entry = "direct"
    /\ optimization_type = ""
    /\ model = ""
    /\ api_key = ""
    /\ max_tokens = DefaultMaxTokens
    /\ strategy = ""
    /\ lm = <<>>
    /\ dspy_lm = <<>>
    /\ NoExamples
    /\ NoCli
    /\ Alone
    /\ prompt_text = <<>>
    /\ kw_max_iterations = <<>>
    /\ max_iterations = DefaultMaxIterations
    /\ verbose = FALSE
    /\ initial_score = 0
    /\ best_prompt = <<>>
    /\ best_score = 0
    /\ i = 0
    /\ candidate_prompt = <<>>
    /\ calls = <<>>
    /\ result = <<>>
    /\ raised = ""
    /\ log = <<>>

\* What the history module does not touch.
beside_history == << pc, prompt_text, kw_max_iterations, max_iterations, verbose,
                     loop_locals, calls, result, raised, log, construction_vars,
                     example_vars, cli_vars, finished, objects >>

\* record_history(data, log_file): the line of data is appended to the log.
\* The value an earlier load_history returned is no longer held.
RecordHistory ==
    /\ pc = "history"
    /\ Len(recorded) < MaxRecords
    /\ \E data \in HistoryData :
         /\ log_file' = appended(log_file, data)
         /\ recorded' = Append(recorded, data)
    /\ limit' = <<>>
    /\ entries' = <<>>
    /\ UNCHANGED beside_history

\* load_history(limit, log_file) returns its entries.
LoadHistory ==
    /\ pc = "history"
    /\ \E k \in Limits :
         /\ limit' = k
         /\ entries' = << load_history(k, log_file) >>
    /\ UNCHANGED << log_file, recorded >>
    /\ UNCHANGED beside_history

HistoryNext ==
    \/ RecordHistory
    \/ LoadHistory

HistorySpec == HistoryInit /\ [][HistoryNext]_vars

(* ------------------- what the call log says about a run ---------------- *)

\* Positions in calls of the calls to each role.
GenerateCalls == { k \in 1..Len(calls) : calls[k].role = "generate" }

EvaluateCalls == { k \in 1..Len(calls) : calls[k].role = "evaluate" }

\* What int() makes of each total_score the Evaluator may return.
Reading == [s \in RawScores |-> py_int(s)]

(* -------------- optimize as a function of the responses ---------------- *)

\* What an external call answers: it returns the output fields, or fails.
\* An evaluation carries its three sub-scores next to total_score (out)
\* and feedback; a generation carries improved_prompt (out).
Response(status, out, feedback, err, clarity, specificity, actionability) ==
    [status |-> status, out |-> out, feedback |-> feedback, err |-> err,
     clarity_score |-> clarity, specificity_score |-> specificity,
     actionability_score |-> actionability]

\* The call c of a call log, ended as the response r says.
Answered(c, r) ==
    IF r.status = "failed" THEN Failed(c, r.err) ELSE Returned(c, r.out, r.feedback)

\* A call log with its last call ended as the response r says.
answer_last(cs, r) == [cs EXCEPT ![Len(cs)] = Answered(cs[Len(cs)], r)]

\* Mutant: the score is the sum of the three sub-scores.
evaluation_score_summed(e) ==
    [ok |-> TRUE, val |-> e.clarity_score + e.specificity_score + e.actionability_score]

\* score = int(evaluation.total_score): the only field of the evaluation
\* the ranking reads.
evaluation_score(e) == [ok |-> Reading[e.out].ok, val |-> Reading[e.out].val]

\* Mutant: a better candidate is only taken when verbose is on.
update_best_when_verbose(v, cand_prompt, cand_score, bp, bs) ==
    [best |-> IF v THEN update_best_if_improved(cand_prompt, cand_score, bp, bs)
                   ELSE << bp, bs >>,
     log |-> log_improvement(v, cand_score, bs)]

\* _update_best_if_improved as a whole: the pair it returns and the line
\* it logs when verbose.
update_best_and_log(v, cand_prompt, cand_score, bp, bs) ==
    [best |-> update_best_if_improved(cand_prompt, cand_score, bp, bs),
     log |-> log_improvement(v, cand_score, bs)]

\* A MetricBasedOptimizer about to run optimize(prompt).
metric_start(prompt, n, v) ==
    [pc |-> "idle", prompt_text |-> prompt, max_iterations |-> n, verbose |-> v,
     best_prompt |-> <<>>, best_score |-> 0, i |-> 0, candidate_prompt |-> <<>>,
     calls |-> <<>>, result |-> <<>>, raised |-> "", log |-> <<>>]

\* optimize runs on by itself until a call is outstanding or it has ended:
\* the seed evaluation is issued, the for loop issues the next generation
\* or returns best_prompt.
metric_advance(s) ==
    IF s.pc = "idle"
    THEN [s EXCEPT !.pc = "seed_evaluation",
                   !.log = @ \o log_initial_state(s.verbose, s.max_iterations),
                   !.calls = Append(@, Call("evaluate", s.prompt_text))]
    ELSE IF s.pc = "loop" /\ range_has_next(s.i, s.max_iterations)
    THEN [s EXCEPT !.pc = "generate",
                   !.calls = Append(@, Call("generate",
                                     generator_input(s.best_prompt, s.candidate_prompt)))]
    ELSE IF s.pc = "loop"
    THEN [s EXCEPT !.pc = "done",
                   !.result = << loop_result(s.best_prompt, s.candidate_prompt) >>]
    ELSE s

\* The outstanding call of optimize is answered by r.
metric_respond(s, r) ==
    LET ended == [s EXCEPT !.calls = answer_last(@, r)]
        score == evaluation_score(r)
        kept  == update_best_and_log(s.verbose, s.candidate_prompt, score.val,
                                     s.best_prompt, s.best_score)
    IN  IF r.status = "failed"
        THEN [ended EXCEPT !.pc = "raised", !.raised = propagate(r.err)]
        ELSE IF s.pc = "generate"
        THEN [ended EXCEPT !.pc = "evaluate", !.candidate_prompt = r.out,
                           !.calls = Append(@, Call("evaluate",
                                             evaluator_input(r.out, s.best_prompt)))]
        ELSE IF ~score.ok
        THEN [ended EXCEPT !.pc = "raised", !.raised = propagate(MalformedModelOutput)]
        ELSE IF s.pc = "seed_evaluation"
        THEN [ended EXCEPT !.pc = "loop",
                           !.best_prompt = initial_best(s.prompt_text, score.val,
                                                        s.best_prompt, s.best_score)[1],
                           !.best_score = initial_best(s.prompt_text, score.val,
                                                       s.best_prompt, s.best_score)[2],
                           !.i = 0,
                           !.log = @ \o log_evaluation(s.verbose, "Original prompt",
                                                       score.val, r.feedback)]
        ELSE [ended EXCEPT !.pc = "loop", !.best_prompt = kept.best[1],
                           !.best_score = kept.best[2], !.i = @ + 1,
                           !.log = @ \o log_evaluation(s.verbose, "Iteration",
                                                       score.val, r.feedback)
                                     \o kept.log]

RECURSIVE metric_replay(_, _)
\* optimize run from s against a stub that answers the calls with rs, in
\* order, until optimize ends or the answers run out.
metric_replay(s, rs) ==
    LET t == metric_advance(s) IN
    IF t.pc \in {"done", "raised"} \/ rs = <<>> THEN t
    ELSE metric_replay(metric_respond(t, Head(rs)), Tail(rs))

\* MetricBasedOptimizer(max_iterations=n, verbose=v).optimize(prompt) with
\* the calls answered by rs.
metric_run(prompt, n, v, rs) == metric_replay(metric_start(prompt, n, v), rs)

\* The budget the loop of the module file optimizer.py is fixed to.
LegacyMaxIterations == 3

\* Mutant: the first pass keeps the initial best_score = 0 instead of the
\* seed's score.
legacy_seed_score_kept(initial, score) == initial

\* The first loop pass of the module file's optimize assigns the seed's
\* score to best_score, whatever best_score was initialised to.
legacy_seed_score(initial, score) == score

\* The module file's MetricBasedOptimizer about to run optimize(prompt):
\* max_iterations = 3, best_prompt = prompt_text, best_score = 0.
legacy_start(prompt, v) ==
    [pc |-> "idle", prompt_text |-> prompt, max_iterations |-> LegacyMaxIterations,
     verbose |-> v, best_prompt |-> prompt, best_score |-> 0, i |-> 0,
     candidate_prompt |-> <<>>, calls |-> <<>>, result |-> <<>>, raised |-> "",
     log |-> <<>>]

\* The module file's optimize runs on by itself until a call is
\* outstanding or it has ended: the first loop pass starts with the
\* evaluation of best_prompt, every pass then generates from best_prompt.
legacy_advance(s) ==
    IF s.pc \in {"idle", "loop"} /\ ~(s.i < s.max_iterations)
    THEN [s EXCEPT !.pc = "done", !.result = << s.best_prompt >>]
    ELSE IF s.pc = "idle"
    THEN [s EXCEPT !.pc = "seed_evaluation",
                   !.calls = Append(@, Call("evaluate", s.best_prompt))]
    ELSE IF s.pc = "loop"
    THEN [s EXCEPT !.pc = "generate",
                   !.calls = Append(@, Call("generate", s.best_prompt))]
    ELSE s

\* The outstanding call of the module file's optimize is answered by r.
legacy_respond(s, r) ==
    LET ended == [s EXCEPT !.calls = answer_last(@, r)]
        score == evaluation_score(r)
    IN  IF r.status = "failed"
        THEN [ended EXCEPT !.pc = "raised", !.raised = r.err]
        ELSE IF s.pc = "generate"
        THEN [ended EXCEPT !.pc = "evaluate", !.candidate_prompt = r.out,
                           !.calls = Append(@, Call("evaluate", r.out))]
        ELSE IF ~score.ok
        THEN [ended EXCEPT !.pc = "raised", !.raised = MalformedModelOutput]
        ELSE IF s.pc = "seed_evaluation"
        THEN [ended EXCEPT !.pc = "loop",
                           !.best_score = legacy_seed_score(s.best_score, score.val),
                           !.log = @ \o log_evaluation(s.verbose, "Original prompt",
                                                       score.val, r.feedback)]
        ELSE [ended EXCEPT !.pc = "loop", !.i = @ + 1,
                           !.best_prompt = IF score.val > s.best_score
                                           THEN s.candidate_prompt ELSE @,
                           !.best_score = IF score.val > s.best_score
                                          THEN score.val ELSE @,
                           !.log = @ \o log_evaluation(s.verbose, "Iteration",
                                                       score.val, r.feedback)
                                     \o log_improvement(s.verbose, score.val,
                                                        s.best_score)]

RECURSIVE legacy_replay(_, _)
\* The module file's optimize run from s against a stub that answers the
\* calls with rs, in order.
legacy_replay(s, rs) ==
    LET t == legacy_advance(s) IN
    IF t.pc \in {"done", "raised"} \/ rs = <<>> THEN t
    ELSE legacy_replay(legacy_respond(t, Head(rs)), Tail(rs))

\* optimizer.py's MetricBasedOptimizer(verbose=v).optimize(prompt) with the
\* calls answered by rs.
legacy_run(prompt, v, rs) == legacy_replay(legacy_start(prompt, v), rs)

\* Whether the returned total_score s reads as an integer.
Parses(s) == Reading[s].ok

\* Evaluations that returned a total_score that reads as an integer.
Scored == { k \in EvaluateCalls : calls[k].status = "returned" /\ Parses(calls[k].out) }

\* The integer the total_score returned by the evaluation at k reads as.
ScoreOf(k) == Reading[calls[k].out].val

\* Among the scored evaluations at positions 1..n: the first with the
\* highest total score.
FirstMax(n) ==
    CHOOSE k \in Scored \cap (1..n) :
        /\ \A j \in Scored \cap (1..n) : ScoreOf(j) <= ScoreOf(k)
        /\ \A j \in Scored \cap (1..n) : ScoreOf(j) = ScoreOf(k) => k <= j

\* The candidate evaluated at position k was rejected: its score does not
\* exceed the highest score before it.
Rejected(k) == k \in Scored /\ k > 1 /\ ScoreOf(k) <= ScoreOf(FirstMax(k - 1))

\* The loop has seeded best (the seed evaluation returned an integer).
Seeded == pc \in {"loop", "generate", "evaluate", "done"}

(* ----------------------- several strategy objects ---------------------- *)

\* The two strategy objects of a caller, and the model each is given.
ObjectNames == { "A", "B" }

ModelOf == [o \in ObjectNames |-> IF o = "A" THEN "a" ELSE "b"]

\* The prompts the caller has optimized.
PairPrompts == { << "p" >> }

\* What a call of an object's optimize is answered: an evaluation with a
\* score, a generated prompt, or a failure.
PairResponses(role) ==
    { Response("failed", <<>>, <<>>, "network", 0, 0, 0) }
    \cup (IF role = "evaluate"
          THEN { Response("returned", << "5" >>, << "f" >>, "", 0, 0, 0) }
          ELSE { Response("returned", << "q" >>, <<>>, "", 0, 0, 0) })

\* A caller about to construct two metric strategies with different
\* models: no object has its LM yet, no optimize call is running (run),
\* none has ended (ended), no call was made (made).
PairInit ==
    /\ pc = "pair"
    /\ entry = "direct"
    /\ optimization_type = "metric"
    /\ model = ""
    /\ api_key = "k"
    /\ max_tokens = DefaultMaxTokens
    /\ strategy = ""
    /\ lm = <<>>
    /\ dspy_lm = <<>>
    /\ NoExamples
    /\ NoCli
    /\ finished = <<>>
    /\ objects = [o \in ObjectNames |->
                    [model |-> ModelOf[o], lm |-> <<>>, begun |-> 0, run |-> <<>>,
                     made |-> <<>>, ended |-> <<>>]]
    /\ log_file = <<>>
    /\ recorded = <<>>
    /\ limit = <<>>
    /\ entries = <<>>
    /\ prompt_text = <<>>
    /\ kw_max_iterations = << PairMaxIterations >>
    /\ max_iterations = field_max_iterations(kw_max_iterations)
    /\ verbose = FALSE
    /\ initial_score = 0
    /\ best_prompt = <<>>
    /\ best_score = 0
    /\ i = 0
    /\ candidate_prompt = <<>>
    /\ calls = <<>>
    /\ result = <<>>
    /\ raised = ""
    /\ log = <<>>

\* What the objects of a caller who holds several leave alone.
beside_pair == << pc, prompt_text, kw_max_iterations, max_iterations, verbose,
                  loop_locals, calls, result, raised, log, entry, optimization_type,
                  model, api_key, max_tokens, strategy, lm, example_vars, cli_vars,
                  finished, history_vars >>

\* MetricBasedOptimizer(model=ModelOf[o], ...): _setup_dspy stores the LM
\* on the object and registers it as the default of dspy.
ConstructStrategy(o) ==
    /\ pc = "pair"
    /\ objects[o].lm = <<>>
    /\ LET own == << LM(objects[o].model, api_key, max_tokens) >> IN
       /\ objects' = [objects EXCEPT ![o].lm = own]
       /\ dspy_lm' = own
    /\ UNCHANGED beside_pair

\* The calls an optimize call has made are added to those of its object
\* when it ends; until then it is the object's running call.
after_step(obj, s) ==
    IF s.pc \in {"done", "raised"}
    THEN [obj EXCEPT !.run = <<>>, !.made = @ \o s.calls,
                     !.ended = Append(@, [result |-> s.result, raised |-> s.raised])]
    ELSE [obj EXCEPT !.run = << s >>]

\* o.optimize(prompt) up to its first call: the modules of _setup_modules
\* are given no LM, so the call goes to the default of dspy.
StrategyOptimize(o) ==
    /\ pc = "pair"
    /\ objects[o].lm # <<>>
    /\ objects[o].run = <<>>
    /\ objects[o].begun < MaxCallsEach
    /\ \E p \in PairPrompts :
         objects' = [objects EXCEPT
                       ![o] = after_step([@ EXCEPT !.begun = @ + 1],
                                         metric_advance(metric_start(p, max_iterations,
                                                                     verbose)))]
    /\ UNCHANGED dspy_lm
    /\ UNCHANGED beside_pair

\* The outstanding call of o.optimize is answered, and optimize runs on to
\* its next call or to its end.
StrategyCallAnswered(o) ==
    /\ pc = "pair"
    /\ objects[o].run # <<>>
    /\ LET s == objects[o].run[1] IN
       \E r \in PairResponses(s.calls[Len(s.calls)].role) :
         objects' = [objects EXCEPT
                       ![o] = after_step(@, metric_advance(metric_respond(s, r)))]
    /\ UNCHANGED dspy_lm
    /\ UNCHANGED beside_pair

PairNext ==
    \/ \E o \in ObjectNames : ConstructStrategy(o)
    \/ \E o \in ObjectNames : StrategyOptimize(o)
    \/ \E o \in ObjectNames : StrategyCallAnswered(o)

PairSpec == PairInit /\ [][PairNext]_vars

(* ------------------------------- claims -------------------------------- *)

\* C1. Monotonic improvement: once best is seeded, best_score never
\* decreases from one step to the next, and when optimize returns, the
\* score the Evaluator gave the returned prompt (the score of the first
\* best-scoring evaluation, whose prompt is the one returned) is at least
\* the score of the seed evaluation.
C1_MonotonicImprovement ==
    /\ [][(Seeded /\ Seeded') => best_score' >= best_score]_vars
    /\ [](pc = "done" =>
            /\ best_score >= ScoreOf(1)
            /\ \E k \in Scored :
                 /\ << calls[k].arg >> = result
                 /\ ScoreOf(k) = best_score
                 /\ ScoreOf(k) >= ScoreOf(1))

\* C1 witness: a run with N >= 1 returned after a candidate scored below the
\* seed and another above it.
C1_Witness ==
    /\ pc = "done"
    /\ max_iterations >= 1
    /\ \E j, k \in Scored : ScoreOf(j) < ScoreOf(1) /\ ScoreOf(k) > ScoreOf(1)

\* C2. Tie-break stability: a candidate whose score equals the current best
\* score leaves best_prompt and best_score unchanged; and if every
\* evaluation of the call returned the same score, optimize returns the
\* prompt it was called with.
C2_TieBreakStability ==
    /\ [][(pc = "evaluate" /\ pc' = "loop"
            /\ Reading[calls'[Len(calls')].out].val = best_score)
          => (best_prompt' = best_prompt /\ best_score' = best_score)]_vars
    /\ [](( /\ pc = "done"
            /\ \A k \in Scored : ScoreOf(k) = ScoreOf(1))
          => result = << prompt_text >>)

\* C2 witness: a run of two or more iterations in which every evaluation
\* returned the same score and the generator returned other prompts than the
\* seed.
C2_Witness ==
    /\ pc = "done"
    /\ max_iterations >= 2
    /\ \A k \in Scored : ScoreOf(k) = ScoreOf(1)
    /\ \A g \in GenerateCalls : calls[g].out # prompt_text

\* C3. Iteration count: when optimize returns with budget N >= 0 (the
\* max_iterations keyword, 3 when it is left out), the Generator was called
\* exactly N times and the Evaluator exactly N+1 times.
C3_IterationCount ==
    (pc = "done" /\ max_iterations >= 0) =>
        /\ max_iterations =
             (IF kw_max_iterations = <<>> THEN 3 ELSE kw_max_iterations[1])
        /\ Cardinality(GenerateCalls) = max_iterations
        /\ Cardinality(EvaluateCalls) = max_iterations + 1

\* C3 witness: a run constructed without the keyword returned.
C3_Witness ==
    /\ pc = "done"
    /\ kw_max_iterations = <<>>
    /\ Cardinality(GenerateCalls) = 3

\* C4. The returned prompt is the prompt of the highest-scoring evaluation
\* of the call, and among several with that score, of the earliest.
C4_ReturnsFirstBest ==
    pc = "done" => result = << calls[FirstMax(Len(calls))].arg >>

\* C4 witness: a run returned in which two evaluations of different prompts
\* share the highest score, which exceeds the seed's.
C4_Witness ==
    /\ pc = "done"
    /\ \E j, k \in Scored :
         /\ j < k
         /\ ScoreOf(j) = ScoreOf(k)
         /\ ScoreOf(j) > ScoreOf(1)
         /\ calls[j].arg # calls[k].arg
         /\ \A m \in Scored : ScoreOf(m) <= ScoreOf(j)

\* C5. Strict improvement acceptance: a candidate scoring strictly more
\* than the current best becomes the best; and when the seed scored 5 and
\* every later evaluation 15, a run with N >= 1 returns the prompt the first
\* Generator call returned (which is not the seed's evaluation: it differs
\* from the seed whenever the Generator returned a different text).
C5_StrictImprovementAccepted ==
    /\ [][(pc = "evaluate" /\ pc' = "loop"
            /\ Reading[calls'[Len(calls')].out].val > best_score)
          => /\ best_prompt' = candidate_prompt
             /\ best_score' = Reading[calls'[Len(calls')].out].val]_vars
    /\ [](( /\ pc = "done"
            /\ max_iterations >= 1
            /\ ScoreOf(1) = 5
            /\ \A k \in Scored \ {1} : ScoreOf(k) = 15)
          => /\ result = << calls[2].out >>
             /\ calls[2].role = "generate"
             /\ (calls[2].out # prompt_text => result # << prompt_text >>))

\* C5 witness: the seed scored 5, three later evaluations scored 15, and the
\* first candidate differs from the seed and from a later candidate.
C5_Witness ==
    /\ pc = "done"
    /\ max_iterations = 3
    /\ ScoreOf(1) = 5
    /\ \A k \in Scored \ {1} : ScoreOf(k) = 15
    /\ calls[2].out # prompt_text
    /\ calls[4].out # calls[2].out

\* C6. Every Generator call receives the current best prompt: the prompt of
\* the first highest-scoring evaluation so far, which is best_prompt; so
\* after a rejected candidate the next Generator call receives the same
\* prompt as the one before it, never the rejected candidate.
C6_GeneratorSeesCurrentBest ==
    \A g \in GenerateCalls :
        /\ calls[g].arg = calls[FirstMax(g - 1)].arg
        /\ (pc = "generate" /\ g = Len(calls)) => calls[g].arg = best_prompt
        /\ (g > 2 /\ Rejected(g - 1)) => calls[g].arg = calls[g - 2].arg

\* C6 witness: a Generator call was made right after a rejected candidate
\* that differs from the best prompt.
C6_Witness ==
    \E g \in GenerateCalls :
        /\ g > 2
        /\ Rejected(g - 1)
        /\ calls[g - 1].arg # calls[g - 2].arg

\* The error an empty prompt is to be signalled with.
InvalidInput == "InvalidInput"

\* C7. Empty input rejection: optimize called with an empty or
\* whitespace-only prompt raises InvalidInput and makes no external call.
C7_EmptyInputRejected ==
    (strip(prompt_text) = <<>> /\ pc # "idle") =>
        (pc = "raised" /\ raised = InvalidInput /\ calls = <<>>)

\* C8. Malformed score propagation: once an evaluation (the seed's or a
\* candidate's) returned a total_score that does not read as an integer,
\* optimize has raised MalformedModelOutput, that evaluation is the last
\* external call made, and no prompt is returned, whatever best was found
\* before.
C8_MalformedScorePropagates ==
    \A k \in EvaluateCalls :
        (calls[k].status = "returned" /\ ~Parses(calls[k].out)) =>
            /\ pc = "raised"
            /\ raised = MalformedModelOutput
            /\ k = Len(calls)
            /\ result = <<>>

\* C8 witness: a candidate's total_score was malformed after an earlier
\* candidate had improved on the seed.
C8_Witness ==
    /\ Len(calls) >= 5
    /\ calls[Len(calls)].status = "returned"
    /\ ~Parses(calls[Len(calls)].out)
    /\ best_score > initial_score
    /\ best_prompt # prompt_text

\* C9. No retry: once an external call failed, the caller of optimize has
\* received that very failure, the failed call is the last external call
\* made (it is not repeated and none follows), and no prompt is returned.
C9_FailurePropagatesNoRetry ==
    \A k \in 1..Len(calls) :
        calls[k].status = "failed" =>
            /\ pc = "raised"
            /\ raised = calls[k].err
            /\ k = Len(calls)
            /\ result = <<>>

\* C9 witness: a Generator call failed in the second iteration or later.
C9_Witness ==
    /\ Len(calls) >= 4
    /\ calls[Len(calls)].role = "generate"
    /\ calls[Len(calls)].status = "failed"
    /\ raised = "rate_limit"

\* The phase of the loop a position belongs to.
Phase ==
    CASE pc = "idle" -> "not-started"
      [] pc = "seed_evaluation" -> "seed-evaluation"
      [] pc \in {"loop", "generate", "evaluate"} -> "iterating"
      [] pc = "done" -> "done"
      [] pc = "raised" -> "raised"

\* No external call made so far has failed.
EveryCallReturns == \A k \in 1..Len(calls) : calls[k].status # "failed"

\* Every total_score returned so far reads as an integer.
EveryScoreParses ==
    \A k \in EvaluateCalls : calls[k].status = "returned" => Parses(calls[k].out)

\* Iterations completed: candidate evaluations that were scored.
IterationsCompleted == Cardinality(Scored \ {1})

\* C10 as claimed, in the form a finite run refutes: called with a
\* non-empty prompt and a budget N >= 1, as long as no external call has
\* failed, the loop is done or can take a further step (so that it goes on
\* to done), and it is done only after exactly N iterations.
C10_Original ==
    (strip(prompt_text) # <<>> /\ max_iterations >= 1 /\ EveryCallReturns) =>
        /\ pc = "done" \/ ENABLED Next
        /\ (pc = "done" /\ max_iterations >= 0) => IterationsCompleted = max_iterations

\* C10, amended. The loop passes through seed-evaluation, iterating, done in
\* that order (or leaves by an exception); it is done only after exactly N
\* iterations (N >= 0), also when no iteration improved the best score; and
\* provided every external call returns and every returned total_score reads
\* as an integer, it reaches done.
C10_PhasesAndTermination ==
    /\ [][Phase' # Phase =>
            << Phase, Phase' >> \in
                { << "not-started", "seed-evaluation" >>,
                  << "seed-evaluation", "iterating" >>,
                  << "iterating", "done" >>,
                  << "seed-evaluation", "raised" >>,
                  << "iterating", "raised" >> }]_vars
    /\ []((pc = "done" /\ max_iterations >= 0) =>
            (i = max_iterations /\ IterationsCompleted = max_iterations))
    /\ ([](EveryCallReturns /\ EveryScoreParses) => <>(pc = "done"))

\* C10 witness: a run of two or more iterations reached done although no
\* candidate improved on the seed.
C10_Witness ==
    /\ pc = "done"
    /\ max_iterations >= 2
    /\ i = max_iterations
    /\ best_prompt = prompt_text
    /\ \A k \in Scored : ScoreOf(k) <= ScoreOf(1)
    /\ \E g \in GenerateCalls : calls[g].out # prompt_text

OnlyRefinerCalls ==
    \A k \in 1..Len(calls) : calls[k].role = "refine" /\ calls[k].arg = prompt_text

\* C20. Self strategy: an optimize call on a self-refinement strategy makes
\* at most one external call, to the refiner and never to the Evaluator;
\* when optimize returns, it made exactly one call and returns that call's
\* improved_prompt whatever it is; when the call fails, optimize ends with
\* that failure and the call is not repeated.
C20_SelfSingleCall ==
    strategy = "self"
    => /\ OnlyRefinerCalls
       /\ Len(calls) <= 1
       /\ pc = "done" =>
            /\ Len(calls) = 1
            /\ calls[1].status = "returned"
            /\ result = << calls[1].out >>
       /\ pc = "raised" =>
            /\ Len(calls) = 1
            /\ calls[1].status = "failed"
            /\ raised = calls[1].err
       /\ pc \in {"done", "raised"} => ~ENABLED StrategyNext

\* C20 witness: a self-refinement optimize returned an improved_prompt
\* other than the prompt it was called with.
C20_Witness ==
    /\ strategy = "self"
    /\ pc = "done"
    /\ result # << prompt_text >>

\* Positions in calls of the example generation calls.
GenerationCalls == { k \in 1..Len(calls) : calls[k].role = "generate_examples" }

\* C14. Example acquisition, for an ExampleBasedOptimizer being constructed
\* and used: an in-memory list that was provided (an empty one too) becomes
\* the strategy's examples, the file is not read and no generation call is
\* made; with no list but a path, the file is read once and no generation
\* call is made; a generation call is made only with neither, and then the
\* file is not read; never more than one source is used.
C14_ExampleSourcePrecedence ==
    (entry = "direct" /\ optimization_type = "example")
    => /\ examples # <<>> =>
            /\ reads = 0
            /\ GenerationCalls = {}
            /\ pc # "start" => (strategy = "example" /\ self_examples = examples)
       /\ (examples = <<>> /\ examples_file # <<>>) =>
            /\ GenerationCalls = {}
            /\ pc # "start" => reads = 1
       /\ GenerationCalls # {} =>
            /\ examples = <<>>
            /\ examples_file = <<>>
            /\ reads = 0
       /\ (examples = <<>> /\ examples_file = <<>> /\ strategy = "example") =>
            Cardinality(GenerationCalls) = 1
       /\ reads + Cardinality(GenerationCalls) <= 1

\* C14 witness: a strategy constructed with an empty in-memory list and the
\* path of a file that holds examples has optimized a prompt.
C14_Witness ==
    /\ entry = "direct"
    /\ optimization_type = "example"
    /\ examples = << <<>> >>
    /\ examples_file # <<>>
    /\ file # <<>>
    /\ load_examples_from_file(file).ok
    /\ pc = "done"

\* Whether the examples file f is a JSON array of objects that each hold
\* the string fields prompt, analysis and improved_prompt.
WellFormedExamplesFile(f) ==
    /\ f # <<>>
    /\ LET d == json_loads(f[1]) IN
         /\ d.ok
         /\ d.val.t = "list"
         /\ \A n \in 1..Len(d.val.v) :
              /\ d.val.v[n].t = "dict"
              /\ \A key \in {PromptKey, AnalysisKey, ImprovedPromptKey} :
                   /\ dict_has(d.val.v[n].v, key)
                   /\ dict_get(d.val.v[n].v, key, JNull).t = "str"

\* C15 (as claimed). Loading the examples file, with either loader,
\* returns a list only when the file is a JSON array of objects that each
\* hold the three string fields; on any other file the load raises and no
\* list is produced.
C15_MalformedFileRejected ==
    /\ pc = "loaded" => WellFormedExamplesFile(file)
    /\ (pc \in {"loaded", "raised"} /\ ~WellFormedExamplesFile(file))
       => (pc = "raised" /\ raised # "" /\ loaded = <<>>)

\* Whether the examples text of a generation response decodes as JSON
\* after the fenced block is extracted.
ResponseDecodes == [t \in ResponseTexts |-> json_loads(extract_json_from_text(t)).ok]

\* C16. No fallback examples: whenever the generation call returned a text
\* that does not decode as JSON (after the fenced-block extraction), the
\* construction of the example strategy ends by raising the parse failure
\* (the RuntimeError "Failed to generate examples", or the ValueError of an
\* empty response); no strategy exists, no examples are set, and no other
\* call follows.
C16_NoFallbackExamples ==
    \A k \in GenerationCalls :
        (calls[k].status = "returned" /\ ~ResponseDecodes[calls[k].out])
        => /\ pc = "raised"
           /\ raised \in {GenerationFailed, EmptyResponse}
           /\ strategy = ""
           /\ self_examples = <<>>
           /\ k = Len(calls)
           /\ result = <<>>

\* C16 witness: the generation call returned a fenced block of prose and
\* the construction has raised.
C16_Witness ==
    /\ pc = "raised"
    /\ \E k \in GenerationCalls :
         /\ calls[k].status = "returned"
         /\ calls[k].out # <<>>
         /\ \E n \in 1..Len(calls[k].out) : calls[k].out[n] = Backtick
         /\ ~ResponseDecodes[calls[k].out]

InvalidConfiguration == { ModelEmpty, ApiKeyEmpty, BudgetNotPositive }

\* The configuration a strategy class was given has a non-positive budget:
\* max_tokens for every strategy, max_iterations for the metric strategy.
NonPositiveBudget ==
    \/ max_tokens <= 0
    \/ optimization_type = "metric" /\ max_iterations <= 0

\* C11: a non-positive budget is rejected. When a strategy class is given a
\* token budget <= 0, or the metric strategy an iteration budget <= 0, no
\* external call is ever made and nothing is returned, and once optimize has
\* been entered the run has ended with an InvalidConfiguration error.
C11_NonPositiveBudgetRejected ==
    entry = "direct" /\ NonPositiveBudget =>
        /\ calls = <<>>
        /\ result = <<>>
        /\ (pc \notin {"start", "idle"} =>
              pc = "raised" /\ raised \in InvalidConfiguration)

\* C12: an empty model identifier or an empty credential is rejected at
\* construction. Whenever a strategy class was called with model = "" or
\* api_key = "", no strategy object exists afterwards, the call has raised
\* an InvalidConfiguration error, and no external call was made.
C12_EmptyCredentialRejected ==
    entry = "direct" /\ (model = "" \/ api_key = "") /\ pc # "start" =>
        /\ strategy = ""
        /\ pc = "raised"
        /\ raised \in InvalidConfiguration
        /\ calls = <<>>

\* The --api-key option is missing or empty.
MissingApiKey == option_api_key \in { <<>>, << "" >> }

\* C18: for every subcommand, a missing or empty API key ends the run with
\* exit code 1 and the message 'Anthropic API key is required', and nothing
\* else happened: the input was not read, no strategy object or example
\* generator was constructed (no LM created or registered), no external
\* call was made, and nothing was written to the output, to standard output
\* or to the examples file.
C18_MissingApiKeyExits ==
    entry = "cli" /\ MissingApiKey /\ pc # "cli" =>
        /\ pc = "exited"
        /\ exit_code = << 1 >>
        /\ stderr = << ApiKeyRequired >>
        /\ ~input_read
        /\ strategy = ""
        /\ lm = <<>>
        /\ dspy_lm = <<>>
        /\ calls = <<>>
        /\ result = <<>>
        /\ output = <<>>
        /\ stdout = <<>>
        /\ writes = 0

\* C18 witness: generate-examples was run with an empty key and has exited
\* with code 1.
C18_Witness ==
    /\ entry = "cli"
    /\ subcommand = "generate-examples"
    /\ option_api_key = << "" >>
    /\ pc = "exited"
    /\ exit_code = << 1 >>

\* The failures of example generation: the generation call fails, or its
\* response is empty or is not JSON.
GenerationFailures == { EmptyResponse, GenerationFailed } \cup Failures

\* C19: a generation failure inside a CLI subcommand is turned into an
\* error message on the error stream and exit code 1, with nothing written
\* to the output.
C19_FailureBecomesMessage ==
    entry = "cli" /\ raised \in GenerationFailures =>
        /\ exit_status = << 1 >>
        /\ \E k \in 1..Len(stderr) : stderr[k].msg = "error"
        /\ output = <<>>
        /\ writes = 0

\* The calls that have not ended yet.
Outstanding == { k \in 1..Len(calls) : calls[k].status = "pending" }

\* C22: the metric loop's calls are strictly sequential and ordered:
\* the first call is the evaluation of the seed, after it Generate and
\* Evaluate alternate, a call is only issued once the one before it has
\* returned, each Evaluate of an iteration receives the prompt the Generate
\* just before it returned, at most one call is outstanding, and there are
\* never more Generate calls than the budget.
C22_SequentialCalls ==
    /\ Cardinality(Outstanding) <= 1
    /\ \A k \in 1..Len(calls) :
         /\ k = 1 => calls[k].role = "evaluate" /\ calls[k].arg = prompt_text
         /\ k > 1 => calls[k - 1].status = "returned"
         /\ k > 1 /\ k % 2 = 0 => calls[k].role = "generate"
         /\ k > 1 /\ k % 2 = 1 =>
              /\ calls[k].role = "evaluate"
              /\ calls[k].arg = calls[k - 1].out
    /\ GenerateCalls # {} => Cardinality(GenerateCalls) <= max_iterations

\* C22 witness: a run of two full iterations has returned, with the second
\* candidate different from the first.
C22_Witness ==
    /\ pc = "done"
    /\ Len(calls) = 5
    /\ calls[3].arg # calls[5].arg
    /\ calls[5].arg = calls[4].out

\* The prompts the Generator has returned in this optimize call.
GeneratedSoFar ==
    { calls[k].out : k \in { g \in GenerateCalls : calls[g].status = "returned" } }

\* C23: the best pair is consistent. Once the seed is evaluated, best_score
\* is the integer some evaluation of best_prompt in this call returned, and
\* best_prompt is the seed prompt or a prompt the Generator returned in
\* this call.
C23_BestPairConsistent ==
    Seeded =>
        /\ \E k \in Scored : calls[k].arg = best_prompt /\ ScoreOf(k) = best_score
        /\ best_prompt = prompt_text \/ best_prompt \in GeneratedSoFar

\* C23 witness: a generated prompt, different from the seed, has replaced
\* the seed as best and the loop went on to a further iteration.
C23_Witness ==
    /\ pc = "done"
    /\ best_prompt # prompt_text
    /\ best_prompt \in GeneratedSoFar
    /\ Len(calls) >= 5
    /\ best_score = ScoreOf(3)
    /\ best_prompt = calls[3].arg

\* The answers the calls of this run received, in call order (the
\* sub-scores, which the call log does not keep, as 0).
Answers ==
    [k \in 1..Len(calls) |->
        Response(calls[k].status, calls[k].out, calls[k].feedback, calls[k].err, 0, 0, 0)]

\* The run has ended: optimize returned or raised.
Ended == pc \in {"done", "raised"}

\* C27: verbosity is purely observational. The run that has just ended, and
\* the run of the same prompt and budget with verbose flipped whose calls
\* receive the same answers, make the same calls with the same arguments
\* and end alike: the same prompt returned or the same error raised.
C27_VerbosityObservational ==
    Ended =>
        LET other == metric_run(prompt_text, max_iterations, ~verbose, Answers) IN
        /\ other.calls = calls
        /\ other.result = result
        /\ other.raised = raised

\* C27 witness: a verbose run that logged an accepted improvement has
\* returned, and its quiet twin logged nothing.
C27_Witness ==
    /\ pc = "done"
    /\ verbose
    /\ \E k \in 1..Len(log) : log[k].msg = "better"
    /\ metric_run(prompt_text, max_iterations, ~verbose, Answers).log = <<>>

\* Sub-scores and feedback an evaluation may carry next to its total: the
\* triples do not sum to any total of RawScores.
EvaluationDetails ==
    { [clarity_score |-> 1, specificity_score |-> 1, actionability_score |-> 1,
       feedback |-> << "g" >>],
      [clarity_score |-> 10, specificity_score |-> 10, actionability_score |-> 10,
       feedback |-> <<>>] }

\* The answers of this run with the sub-scores and feedback of the
\* evaluations replaced: the seed evaluation carries d1, the later ones d2.
AnswersWithDetails(d1, d2) ==
    [k \in 1..Len(calls) |->
        LET d == IF k = 1 THEN d1 ELSE d2 IN
        IF calls[k].role = "evaluate" /\ calls[k].status = "returned"
        THEN Response("returned", calls[k].out, d.feedback, "",
                      d.clarity_score, d.specificity_score, d.actionability_score)
        ELSE Answers[k]]

\* The calls of a call log without the feedback text they returned.
WithoutFeedback(cs) == [k \in 1..Len(cs) |-> [cs[k] EXCEPT !.feedback = <<>>]]

\* C28: the total score is the sole ranking key. A run that receives the
\* same prompts and the same total scores as the run that has just ended,
\* but other sub-scores and feedback, makes the same calls and ends alike;
\* and every total that reads as an integer is ranked, never rejected,
\* whether or not it lies in 3..30.
C28_TotalSoleRankingKey ==
    Ended =>
        /\ \A d1, d2 \in EvaluationDetails :
             LET other == metric_run(prompt_text, max_iterations, verbose,
                                     AnswersWithDetails(d1, d2))
             IN  /\ WithoutFeedback(other.calls) = WithoutFeedback(calls)
                 /\ other.result = result
                 /\ other.raised = raised
        /\ (raised = MalformedModelOutput =>
              \E k \in EvaluateCalls : calls[k].status = "returned" /\ ~Parses(calls[k].out))

\* C28 witness: a run has returned a generated prompt that won with the
\* total 5 against a seed whose total, -3, lies outside 3..30.
C28_Witness ==
    /\ pc = "done"
    /\ Len(calls) >= 3
    /\ ScoreOf(1) < 3
    /\ ScoreOf(3) = 5
    /\ result = << calls[3].arg >>
    /\ result # << prompt_text >>

\* C30: the loop of the module file optimizer.py and the refactored loop
\* run with max_iterations = 3 are equivalent. For every ended run of the
\* refactored loop with budget 3, the module file's loop given the same
\* prompt and the same answers makes the same calls with the same
\* arguments and ends alike: the same prompt returned or the same error.
C30_LegacyLoopEquivalent ==
    Ended /\ max_iterations = LegacyMaxIterations =>
        LET legacy == legacy_run(prompt_text, verbose, Answers) IN
        /\ legacy.calls = calls
        /\ legacy.result = result
        /\ legacy.raised = raised

\* C30 witness: a run with budget 3 has returned after three iterations, its
\* seed scored below 0 (the module file's initial best_score) and a
\* candidate that scored higher than the seed was accepted.
C30_Witness ==
    /\ pc = "done"
    /\ max_iterations = LegacyMaxIterations
    /\ Len(calls) = 7
    /\ ScoreOf(1) < 0
    /\ result # << prompt_text >>
    /\ legacy_run(prompt_text, verbose, Answers).pc = "done"

\* The calls optimize of the example strategy made.
ExampleRefinerCalls ==
    { k \in 1..Len(calls) : calls[k].role = "refine_with_examples" }

\* C24: after the example strategy generated its examples on demand with
\* the example generator's model, the call its optimize makes goes to the
\* language model configured for the optimizer itself: self.lm, made of
\* its model, its credential and its token budget.
C24_OptimizeUsesOwnLM ==
    strategy = "example" /\ GenerationCalls # {} =>
        \A k \in ExampleRefinerCalls :
            calls[k].lm = << LM(model, api_key, max_tokens) >>

\* Where the call log stood when the optimize call now running (or last
\* run) began.
CallStart == IF finished = <<>> THEN 0 ELSE finished[Len(finished)].calls

\* The calls of the optimize call now running (or last run).
OwnCalls == SubSeq(calls, CallStart + 1, Len(calls))

\* The answers those calls received.
OwnAnswers == SubSeq(Answers, CallStart + 1, Len(calls))

\* C26: no best-state survives between optimize calls. When a later
\* optimize call on a metric optimizer has ended, its calls, its result and
\* its error are those of a first call on a fresh object given the same
\* prompt and the same answers, so nothing of the earlier call's best
\* prompt or score enters; and the configuration fields are as constructed.
C26_NoStateAcrossCalls ==
    strategy = "metric" /\ finished # <<>> =>
        /\ Ended =>
             LET fresh == metric_run(prompt_text, max_iterations, verbose, OwnAnswers) IN
             /\ fresh.calls = OwnCalls
             /\ fresh.result = result
             /\ fresh.raised = raised
        /\ max_iterations = field_max_iterations(kw_max_iterations)
        /\ lm = << LM(model, api_key, max_tokens) >>
        /\ dspy_lm = lm

\* C26 witness: the first call returned a generated prompt that scored 15;
\* the second call, on another prompt whose seed scored -3, has returned a
\* candidate that scored 5, less than the first call's best.
C26_Witness ==
    /\ strategy = "metric"
    /\ Len(finished) = 1
    /\ pc = "done"
    /\ finished[1].calls = 3
    /\ finished[1].result = << calls[3].arg >>
    /\ ScoreOf(3) = 15
    /\ Len(calls) = 6
    /\ prompt_text # finished[1].prompt_text
    /\ ScoreOf(4) < 0
    /\ ScoreOf(6) = 5
    /\ result = << calls[6].arg >>
    /\ result # finished[1].result

\* How many optimize calls the caller has begun on the object.
OptimizeCallsBegun == Len(finished) + (IF pc \in {"start", "idle", "examples_generation"} THEN 0 ELSE 1)

\* The prompt the caller gave to its j-th optimize call.
PromptOfCall(j) == IF j <= Len(finished) THEN finished[j].prompt_text ELSE prompt_text

\* C21: the example strategy has its examples once it is constructed, from
\* at most one generation call (the first call of all) or one file read;
\* each optimize call makes exactly one call, to the example refiner, with
\* the prompt it was given and the formatted examples of the object, and
\* returns the improved prompt of that call; later optimize calls make no
\* generation call and read no file.
C21_ExamplesOnceOneCallEach ==
    strategy = "example" =>
        LET acquired == Cardinality(GenerationCalls) IN
        /\ self_examples # <<>>
        /\ GenerationCalls \subseteq {1}
        /\ reads + acquired <= 1
        /\ Len(calls) = acquired + OptimizeCallsBegun
        /\ \A j \in 1..OptimizeCallsBegun :
             /\ calls[acquired + j].role = "refine_with_examples"
             /\ calls[acquired + j].arg = PromptOfCall(j)
             /\ calls[acquired + j].examples = format_examples(self_examples[1])
        /\ \A j \in 1..Len(finished) :
             /\ finished[j].calls = acquired + j
             /\ finished[j].reads = reads
             /\ finished[j].result = << calls[acquired + j].out >>
        /\ pc = "done" => result = << calls[Len(calls)].out >>

\* C21 witness: an object that generated its examples has ended a second
\* optimize call, on another prompt than the first, with another result.
C21_Witness ==
    /\ strategy = "example"
    /\ GenerationCalls = {1}
    /\ Len(finished) = 1
    /\ pc = "done"
    /\ Len(calls) = 3
    /\ prompt_text # finished[1].prompt_text
    /\ result # finished[1].result
    /\ result # << prompt_text >>
    /\ calls[2].examples = calls[3].examples
    /\ calls[3].examples # <<>>

\* C29: when load_history(limit=k) has returned after some record_history
\* calls, with k >= 0 it returned at most k entries, the most recently
\* recorded ones in the order they were recorded; with no limit it
\* returned every recorded entry in that order.
C29_HistoryLimit ==
    entries # <<>> =>
        LET n == Len(recorded)
            got == entries[1]
        IN  IF limit = <<>> THEN got = recorded
            ELSE /\ Len(got) <= limit[1]
                 /\ got = SubSeq(recorded, n - Len(got) + 1, n)
                 /\ Len(got) = (IF limit[1] < n THEN limit[1] ELSE n)

\* The calls an object's optimize has made so far, ended and running.
CallsOf(o) ==
    objects[o].made \o (IF objects[o].run = <<>> THEN <<>> ELSE objects[o].run[1].calls)

\* C25: with two strategy objects of different models, however their
\* constructions and optimize calls interleave, every call made by an
\* object's optimize goes to that object's own language model.
C25_CallsUseOwnLM ==
    pc = "pair" =>
        \A o \in ObjectNames :
            \A k \in 1..Len(CallsOf(o)) : CallsOf(o)[k].lm = objects[o].lm

====
